---- MODULE Spec2Model ----
(***************************************************************************)
(* Command routing and streaming orchestration core of the CLIve backend:  *)
(* command classifier, circuit breaker, session store facade and the       *)
(* integration orchestrator (src/backend/services, src/backend/middleware, *)
(* src/backend/models).                                                    *)
(*                                                                         *)
(* Texts are sequences of one-character strings, so that lower(), strip(), *)
(* replace() and the `in` substring test are computed character by         *)
(* character as Python computes them.                                      *)
(***************************************************************************)
EXTENDS Integers, Sequences, FiniteSets, TLC

VARIABLES
    \* ---- command classifier and query clean-up (integration_service.py)
    user_message,        \* the raw user text
    command_type,        \* result of _classify_command, "none" before it ran
    clean_query,         \* the query being cleaned for the knowledge-base adapter
    remaining,           \* indicators the clean-up loop has not iterated yet
    cpc,                 \* position of the classify/clean-up run
    \* ---- agent response formatting (_format_agent_response)
    agent_response,      \* the AgentResponse handed to the formatter
    formatted_response,  \* the display text it returned
    fpc,                 \* position of the formatting run
    \* ---- circuit breaker (integration_error_handling.py)
    failure_threshold,
    recovery_timeout,
    failure_count,
    last_failure_time,   \* NoTime or the clock value of the last failure
    state,               \* "CLOSED" | "OPEN" | "HALF_OPEN"
    func_calls,          \* how often the wrapped function was invoked
    attempts,            \* how often CircuitBreaker.call was entered
    call_result,         \* outcome of the last CircuitBreaker.call
    bpc,                 \* "idle" or "in_func" (inside the wrapped function)
    streak,              \* failures of the wrapped function since its last success
    trial_failed_at,     \* clock value at which the last HALF_OPEN trial failed, or NoTime
    prev,                \* breaker fields as they were when the last call was entered
    \* ---- clock shared by breaker and sessions (datetime.now)
    now,
    \* ---- session store facade (session_service.py) over the DynamoDB table
    table,               \* session_id -> stored record, or NoItem
    faults,              \* whether the storage backend may fail put_item
    last_op,             \* the last facade operation: its arguments and what it returned
    msg_seq,             \* number of messages constructed so far
    uuids,               \* session ids uuid4() has not handed out yet
    \* ---- integration orchestrator (process_user_command)
    ipc,                 \* position of the process_user_command invocation
    inv,                 \* the invocation's arguments and working copy
    fragments,           \* fragments received by the consumer, in order
    events,              \* emissions and persists of the invocation, in order
    raised,              \* exception that left process_user_command, or "none"
    \* ---- agent monitoring (agent_monitoring_service.py)
    metrics,             \* AgentMetrics of the one agent id, or NoItem before its first record
    adapter_calls,       \* calls of AgentService.invoke_agent so far
    \* ---- concurrent callers of add_message_to_session
    callers              \* caller -> position, arguments and local Session of its call

classifier_vars == <<user_message, command_type, clean_query, remaining, cpc>>
breaker_vars == <<failure_threshold, recovery_timeout, failure_count, last_failure_time,
                  state, func_calls, attempts, call_result, bpc, streak,
                  trial_failed_at, prev>>
store_vars == <<table, faults, last_op, msg_seq, uuids>>
command_vars == <<ipc, inv, fragments, events, raised>>
agent_vars == <<agent_response, formatted_response, fpc>>
monitoring_vars == <<metrics, adapter_calls>>
vars == <<classifier_vars, agent_vars, breaker_vars, now, store_vars, command_vars,
          monitoring_vars, callers>>

\* None, for a time and for a knowledge-base id
NoTime == -1
NoKb == "none"
\* None, for a stored item, a Session and a registry entry
NoItem == [none |-> TRUE]

(***************************************************************************)
(* Text primitives                                                         *)
(***************************************************************************)
UpperCase == <<"A","B","C","D","E","F","G","H","I","J","K","L","M",
               "N","O","P","Q","R","S","T","U","V","W","X","Y","Z">>
LowerCase == <<"a","b","c","d","e","f","g","h","i","j","k","l","m",
               "n","o","p","q","r","s","t","u","v","w","x","y","z">>

\* str.lower() on one character
lower_char(c) ==
    IF \E i \in 1..26 : UpperCase[i] = c
    THEN LowerCase[CHOOSE i \in 1..26 : UpperCase[i] = c]
    ELSE c

\* str.lower()
lower(s) == [i \in 1..Len(s) |-> lower_char(s[i])]

IsSpace(c) == c = " "

RECURSIVE lstrip(_)
lstrip(s) == IF s # <<>> /\ IsSpace(Head(s)) THEN lstrip(Tail(s)) ELSE s

RECURSIVE rstrip(_)
rstrip(s) ==
    IF s # <<>> /\ IsSpace(s[Len(s)]) THEN rstrip(SubSeq(s, 1, Len(s) - 1)) ELSE s

\* str.strip()
strip(s) == rstrip(lstrip(s))

\* Python's `sub in s` for strings
contains(s, sub) ==
    \E i \in 1..(Len(s) - Len(sub) + 1) : SubSeq(s, i, i + Len(sub) - 1) = sub

\* str.replace(old, ""): the non-overlapping occurrences, left to right
RECURSIVE replace_empty(_, _)
replace_empty(s, old) ==
    IF Len(s) < Len(old) THEN s
    ELSE IF SubSeq(s, 1, Len(old)) = old
         THEN replace_empty(SubSeq(s, Len(old) + 1, Len(s)), old)
         ELSE <<Head(s)>> \o replace_empty(Tail(s), old)

(***************************************************************************)
(* Command classifier: IntegrationService.__init__, _classify_command      *)
(***************************************************************************)
agent_commands == {
    <<"t","i","m","e">>,
    <<"c","u","r","r","e","n","t","_","t","i","m","e">>,
    <<"g","e","t","_","t","i","m","e">>,
    <<"d","a","t","e">>,
    <<"c","u","r","r","e","n","t","_","d","a","t","e">>,
    <<"g","e","t","_","d","a","t","e">>,
    <<"w","e","a","t","h","e","r">>,
    <<"c","u","r","r","e","n","t","_","w","e","a","t","h","e","r">>,
    <<"g","e","t","_","w","e","a","t","h","e","r">>,
    <<"a","l","l">>,
    <<"a","l","l","_","i","n","f","o">>,
    <<"e","v","e","r","y","t","h","i","n","g">> }

knowledge_base_indicators == {
    <<"k","b",":">>,
    <<"k","n","o","w","l","e","d","g","e",":">>,
    <<"s","e","a","r","c","h",":">>,
    <<"f","i","n","d",":">>,
    <<"l","o","o","k","u","p",":">> }

\* A plausible slip: the knowledge-base test placed before the agent test.
classify_kb_first(msg) ==
    LET message_lower == strip(lower(msg)) IN
    IF \E indicator \in knowledge_base_indicators : contains(message_lower, indicator)
    THEN "knowledge_base"
    ELSE IF \E cmd \in agent_commands : contains(message_lower, cmd)
         THEN "agent"
         ELSE "general_ai"

\* A plausible slip: the message is not lower-cased before matching.
classify_case_sensitive(msg) ==
    LET message_lower == strip(msg) IN
    IF \E cmd \in agent_commands : contains(message_lower, cmd)
    THEN "agent"
    ELSE IF \E indicator \in knowledge_base_indicators : contains(message_lower, indicator)
         THEN "knowledge_base"
         ELSE "general_ai"

_classify_command(msg) ==
    LET message_lower == strip(lower(msg)) IN
    IF \E cmd \in agent_commands : contains(message_lower, cmd)
    THEN "agent"
    ELSE IF \E indicator \in knowledge_base_indicators : contains(message_lower, indicator)
         THEN "knowledge_base"
         ELSE "general_ai"


(***************************************************************************)
(* Query clean-up of _handle_knowledge_base_query (lines 224-227)          *)
(*   clean_query = user_message                                            *)
(*   for indicator in self.knowledge_base_indicators:                      *)
(*       clean_query = clean_query.replace(indicator, "").strip()          *)
(* knowledge_base_indicators is a Python set of str: its iteration order   *)
(* follows the per-process string hash seed, so the loop below takes the   *)
(* indicators in any order.                                                *)
(***************************************************************************)
clean_step(query, indicator) == strip(replace_empty(query, indicator))

(***************************************************************************)
(* Input texts: concatenations of at most MaxPieces pieces                 *)
(***************************************************************************)
MaxPieces == 3

Pieces == {
    <<"k","b",":">>,
    <<"K","B",":">>,
    <<"s","e","a","r","c","h",":">>,
    <<"s","e","a","r">>,
    <<"c","h",":">>,
    <<"t","i","m","e">>,
    <<"T","i","m","e">>,
    <<"a","l","l">>,
    <<" ">>,
    <<"d","o","c","s">> }

RECURSIVE Concat(_)
Concat(ps) == IF ps = <<>> THEN <<>> ELSE Head(ps) \o Concat(Tail(ps))

Texts == { Concat(ps) : ps \in UNION { [1..n -> Pieces] : n \in 0..MaxPieces } }

ClassifierIdle ==
    /\ user_message = <<>>
    /\ command_type = "none"
    /\ clean_query = <<>>
    /\ remaining = {}
    /\ cpc = "off"

\* command_type = self._classify_command(user_message), and the first line of the
\* clean-up when the text goes to the knowledge-base handler
Classify ==
    /\ cpc = "input"
    /\ command_type' = _classify_command(user_message)
    /\ IF command_type' = "knowledge_base"
       THEN /\ clean_query' = user_message
            /\ remaining' = knowledge_base_indicators
            /\ cpc' = "clean"
       ELSE /\ cpc' = "done"
            /\ UNCHANGED <<clean_query, remaining>>
    /\ UNCHANGED <<user_message, agent_vars, breaker_vars, now, monitoring_vars, callers, store_vars, command_vars>>

\* one iteration of the clean-up loop; after the last one the query is passed on
CleanStep ==
    /\ cpc = "clean"
    /\ \E indicator \in remaining :
        /\ clean_query' = clean_step(clean_query, indicator)
        /\ remaining' = remaining \ {indicator}
        /\ cpc' = IF remaining' = {} THEN "done" ELSE "clean"
    /\ UNCHANGED <<user_message, command_type, agent_vars, breaker_vars, now, monitoring_vars, callers, store_vars, command_vars>>

NextClassify == Classify \/ CleanStep


(***************************************************************************)
(* Agent responses: models/agent_response.py, models/enums.py and          *)
(* IntegrationService._format_agent_response.  A display text is a         *)
(* sequence of string pieces: the literal parts of the f-string and the    *)
(* values interpolated into it.                                            *)
(***************************************************************************)
\* class AgentResponseType(str, Enum): member -> value
AgentResponseType ==
    [TIME |-> "time", DATE |-> "date", WEATHER |-> "weather",
     COMBINED |-> "combined", ERROR |-> "error"]

\* AgentResponse.location, the dataclass default
location == "Birmingham, Alabama"

\* data of the responses the factory methods of AgentResponse build
TimeData == [time : {"09:00", "17:30"}, timezone : {"CST"}]
DateData == [date : {"2024-01-15", "2024-07-04"}, day_of_week : {"Monday"}]
\* create_weather_response stores humidity only when it is given
WeatherData ==
    [temperature : {"72F", "40F"}, condition : {"Sunny", "Rain"}]
        \cup [temperature : {"72F", "40F"}, condition : {"Sunny", "Rain"},
              humidity : {"65%"}]
\* create_combined_response stores the parts that are given; __post_init__
\* rejects an empty data mapping
CombinedData ==
    { [k \in ks |-> full[k]] :
        full \in [time : TimeData, date : DateData, weather : WeatherData],
        ks \in (SUBSET {"time", "date", "weather"}) \ {{}} }

NewAgentResponse(type, data) ==
    [response_type |-> type, data |-> data, location |-> location]

\* the command lists of AgentService.invoke_agent
time_commands ==
    {<<"t","i","m","e">>, <<"c","u","r","r","e","n","t","_","t","i","m","e">>,
     <<"g","e","t","_","t","i","m","e">>}
date_commands ==
    {<<"d","a","t","e">>, <<"c","u","r","r","e","n","t","_","d","a","t","e">>,
     <<"g","e","t","_","d","a","t","e">>}
weather_commands ==
    {<<"w","e","a","t","h","e","r">>,
     <<"c","u","r","r","e","n","t","_","w","e","a","t","h","e","r">>,
     <<"g","e","t","_","w","e","a","t","h","e","r">>}
all_commands ==
    {<<"a","l","l">>, <<"a","l","l","_","i","n","f","o">>,
     <<"e","v","e","r","y","t","h","i","n","g">>}

\* the responses AgentService.invoke_agent can return for a command: the typed
\* response of the command's kind, or an error response when the agent reports
\* an error or raises
invoke_agent(command) ==
    LET error == {NewAgentResponse(AgentResponseType.ERROR,
                                   [error_message |-> "Unknown error"])} IN
    IF command \in time_commands
    THEN {NewAgentResponse(AgentResponseType.TIME, d) : d \in TimeData} \cup error
    ELSE IF command \in date_commands
    THEN {NewAgentResponse(AgentResponseType.DATE, d) : d \in DateData} \cup error
    ELSE IF command \in weather_commands
    THEN {NewAgentResponse(AgentResponseType.WEATHER, d) : d \in WeatherData} \cup error
    ELSE IF command \in all_commands
    THEN {NewAgentResponse(AgentResponseType.COMBINED, d) : d \in CombinedData} \cup error
    ELSE error

\* A plausible slip: an error response is treated as a success.
is_successful_always(r) == TRUE

\* AgentResponse.is_successful
is_successful(r) == r.response_type # AgentResponseType.ERROR

\* one command of each kind
AgentCommands ==
    {<<"t","i","m","e">>, <<"d","a","t","e">>, <<"w","e","a","t","h","e","r">>,
     <<"a","l","l">>}

\* data.get(key) is truthy: the key is there and its text is not empty
get_text(d, k) == k \in DOMAIN d /\ d[k] # ""
\* data.get(key) is truthy for a nested mapping (never stored empty)
get_part(d, k) == k \in DOMAIN d

\* str(dict) of a mapping of texts, keys in insertion order
RECURSIVE items(_, _)
items(d, keys) ==
    IF keys = <<>> THEN <<>>
    ELSE (IF Head(keys) \in DOMAIN d
          THEN <<"'", Head(keys), "': '", d[Head(keys)], "'">> ELSE <<>>)
         \o items(d, Tail(keys))

str_dict(d, keys) == <<"{">> \o items(d, keys) \o <<"}">>

\* str(data) of a response: flat for time, date and weather, nested for combined
str_data(r) ==
    LET d == r.data IN
    IF r.response_type = AgentResponseType.TIME THEN str_dict(d, <<"time", "timezone">>)
    ELSE IF r.response_type = AgentResponseType.DATE
    THEN str_dict(d, <<"date", "day_of_week">>)
    ELSE IF r.response_type = AgentResponseType.WEATHER
    THEN str_dict(d, <<"temperature", "condition", "humidity">>)
    ELSE IF r.response_type = AgentResponseType.COMBINED
    THEN <<"{">>
         \o (IF "time" \in DOMAIN d
             THEN <<"'time': ">> \o str_dict(d.time, <<"time", "timezone">>) ELSE <<>>)
         \o (IF "date" \in DOMAIN d
             THEN <<"'date': ">> \o str_dict(d.date, <<"date", "day_of_week">>) ELSE <<>>)
         \o (IF "weather" \in DOMAIN d
             THEN <<"'weather': ">>
                  \o str_dict(d.weather, <<"temperature", "condition", "humidity">>)
             ELSE <<>>)
         \o <<"}">>
    ELSE str_dict(d, <<"error_message">>)

\* "\n".join(parts)
RECURSIVE join_lines(_)
join_lines(parts) ==
    IF parts = <<>> THEN <<>>
    ELSE IF Len(parts) = 1 THEN parts[1]
    ELSE parts[1] \o <<"\n">> \o join_lines(Tail(parts))

\* IntegrationService._format_agent_response: response_type.value is compared
\* with "TIME", "DATE", "WEATHER" and "COMBINED"
_format_agent_response(r) ==
    LET d == r.data IN
    IF r.response_type = "TIME"
    THEN <<"Current time in ", r.location, ": ", d.time, " (", d.timezone, ")">>
    ELSE IF r.response_type = "DATE"
    THEN <<"Current date in ", r.location, ": ", d.date, " (", d.day_of_week, ")">>
    ELSE IF r.response_type = "WEATHER"
    THEN <<"Weather in ", r.location, ": ", d.condition, ", ", d.temperature>>
         \o (IF get_text(d, "humidity") THEN <<", Humidity: ", d.humidity>> ELSE <<>>)
    ELSE IF r.response_type = "COMBINED"
    THEN LET time_part == IF get_part(d, "time")
                          THEN << <<"Time: ", d.time.time, " (", d.time.timezone, ")">> >>
                          ELSE <<>>
             date_part == IF get_part(d, "date")
                          THEN << <<"Date: ", d.date.date, " (", d.date.day_of_week, ")">> >>
                          ELSE <<>>
             weather_part ==
                 IF get_part(d, "weather")
                 THEN << <<"Weather: ", d.weather.condition, ", ", d.weather.temperature>>
                         \o (IF get_text(d.weather, "humidity")
                             THEN <<", Humidity: ", d.weather.humidity>> ELSE <<>>) >>
                 ELSE <<>>
         IN <<"Birmingham, Alabama Information:", "\n">>
            \o join_lines(time_part \o date_part \o weather_part)
    ELSE str_data(r)

(***************************************************************************)
(* Agent monitoring: AgentMonitoringService.record_request and the calls   *)
(* of it in AgentService (services/agent_service.py).  The registry has    *)
(* one key, the agent id "birmingham_agent".                               *)
(***************************************************************************)
\* calls of invoke_agent in one behaviour of SpecAgent
MaxAgentCalls == 3

\* AgentMetrics(agent_id=agent_id)
NewAgentMetrics == [total_requests |-> 0, successful_requests |-> 0, failed_requests |-> 0]

\* AgentMonitoringService.record_request
record_request(m, success) ==
    LET mm == IF m = NoItem THEN NewAgentMetrics ELSE m IN
    [total_requests |-> mm.total_requests + 1,
     successful_requests |-> mm.successful_requests + (IF success THEN 1 ELSE 0),
     failed_requests |-> mm.failed_requests + (IF success THEN 0 ELSE 1)]

\* the registry after invoke_agent(command) returned response: get_current_time,
\* get_current_date and get_weather record one request on each of their paths;
\* get_all_info and the unknown-command branch record nothing
invoke_agent_records(command, response, m) ==
    IF command \in time_commands \cup date_commands \cup weather_commands
    THEN record_request(m, response.response_type # AgentResponseType.ERROR)
    ELSE m

\* AgentMetrics.total_requests of the agent, 0 while it has no entry
total_requests == IF metrics = NoItem THEN 0 ELSE metrics.total_requests

MonitoringIdle ==
    /\ metrics = NoItem
    /\ adapter_calls = 0

\* await agent_service.invoke_agent(command)
InvokeAgent ==
    /\ adapter_calls < MaxAgentCalls
    /\ \E command \in AgentCommands :
        \E response \in invoke_agent(command) :
            /\ agent_response' = response
            /\ metrics' = invoke_agent_records(command, response, metrics)
    /\ adapter_calls' = adapter_calls + 1
    /\ UNCHANGED <<formatted_response, fpc, classifier_vars, breaker_vars, now, callers,
                   store_vars, command_vars>>

NextAgent == InvokeAgent

FormatIdle ==
    /\ agent_response = [response_type |-> "none"]
    /\ formatted_response = <<>>
    /\ fpc = "off"

\* formatted_response = self._format_agent_response(agent_response)
FormatResponse ==
    /\ fpc = "input"
    /\ formatted_response' = _format_agent_response(agent_response)
    /\ fpc' = "done"
    /\ UNCHANGED <<agent_response, classifier_vars, breaker_vars, now, monitoring_vars, callers, store_vars,
                   command_vars>>

NextFormat == FormatResponse


(***************************************************************************)
(* Circuit breaker: class CircuitBreaker (integration_error_handling.py)   *)
(***************************************************************************)
MaxThreshold == 3
MaxRecovery == 2
MaxTime == 4
MaxCalls == 7

\* datetime.now() moves on
Tick ==
    /\ now < MaxTime
    /\ now' = now + 1
    /\ UNCHANGED <<classifier_vars, agent_vars, breaker_vars, store_vars, command_vars,
                   monitoring_vars, callers>>

\* A plausible slip: >= where the code has >.
should_attempt_reset_at_timeout(lft, t, timeout) ==
    IF lft = NoTime THEN TRUE ELSE (t - lft) >= timeout

_should_attempt_reset(lft, t, timeout) ==
    IF lft = NoTime THEN TRUE ELSE (t - lft) > timeout

\* A plausible slip: the state is closed but the count is kept.
on_success_keep_count(count) ==
    [failure_count |-> count, state |-> "CLOSED"]

\* A plausible slip: the count is reset but the state is left as it is.
on_success_keep_state(count) ==
    [failure_count |-> 0, state |-> state]

_on_success(count) ==
    [failure_count |-> 0, state |-> "CLOSED"]

\* A plausible slip: > where the code has >=.
on_failure_above_threshold(count, st, t, threshold) ==
    [failure_count |-> count + 1,
     last_failure_time |-> t,
     state |-> IF count + 1 > threshold THEN "OPEN" ELSE st]

\* A plausible slip: last_failure_time is set only when the breaker opens from closed.
on_failure_keep_time(count, st, t, threshold) ==
    [failure_count |-> count + 1,
     last_failure_time |-> IF st = "HALF_OPEN" THEN last_failure_time ELSE t,
     state |-> IF count + 1 >= threshold THEN "OPEN" ELSE st]

_on_failure(count, st, t, threshold) ==
    [failure_count |-> count + 1,
     last_failure_time |-> t,
     state |-> IF count + 1 >= threshold THEN "OPEN" ELSE st]

BreakerFields ==
    [state |-> state, failure_count |-> failure_count,
     last_failure_time |-> last_failure_time, func_calls |-> func_calls, now |-> now]

BreakerConstructed ==
    /\ failure_count = 0
    /\ last_failure_time = NoTime
    /\ state = "CLOSED"
    /\ func_calls = 0
    /\ attempts = 0
    /\ call_result = "none"
    /\ bpc = "idle"
    /\ streak = 0
    /\ trial_failed_at = NoTime
    /\ prev = BreakerFields

\* CircuitBreaker.call up to the invocation of func: the OPEN test, the move to
\* HALF_OPEN or the raise, and the entry into func
CallEnter ==
    /\ bpc = "idle"
    /\ attempts < MaxCalls
    /\ attempts' = attempts + 1
    /\ prev' = BreakerFields
    /\ IF state = "OPEN" /\ ~_should_attempt_reset(last_failure_time, now, recovery_timeout)
       THEN /\ call_result' = "circuit_open"
            /\ UNCHANGED <<state, func_calls, bpc>>
       ELSE /\ state' = IF state = "OPEN" THEN "HALF_OPEN" ELSE state
            /\ func_calls' = func_calls + 1
            /\ call_result' = "pending"
            /\ bpc' = "in_func"
    /\ UNCHANGED <<failure_threshold, recovery_timeout, failure_count, last_failure_time,
                   streak, trial_failed_at>>
    /\ UNCHANGED <<classifier_vars, agent_vars, now, monitoring_vars, callers, store_vars, command_vars>>

\* func returned: self._on_success(); return result
FuncReturn ==
    /\ bpc = "in_func"
    /\ LET r == _on_success(failure_count) IN
        /\ failure_count' = r.failure_count
        /\ state' = r.state
    /\ call_result' = "ok"
    /\ bpc' = "idle"
    /\ streak' = 0
    /\ trial_failed_at' = NoTime
    /\ UNCHANGED <<failure_threshold, recovery_timeout, last_failure_time, func_calls,
                   attempts, prev>>
    /\ UNCHANGED <<classifier_vars, agent_vars, now, monitoring_vars, callers, store_vars, command_vars>>

\* func raised: self._on_failure(); raise
FuncRaise ==
    /\ bpc = "in_func"
    /\ LET r == _on_failure(failure_count, state, now, failure_threshold) IN
        /\ failure_count' = r.failure_count
        /\ last_failure_time' = r.last_failure_time
        /\ state' = r.state
    /\ call_result' = "error"
    /\ bpc' = "idle"
    /\ streak' = streak + 1
    /\ trial_failed_at' = IF state = "HALF_OPEN" THEN now ELSE trial_failed_at
    /\ UNCHANGED <<failure_threshold, recovery_timeout, func_calls, attempts, prev>>
    /\ UNCHANGED <<classifier_vars, agent_vars, now, monitoring_vars, callers, store_vars, command_vars>>

NextBreaker == Tick \/ CallEnter \/ FuncReturn \/ FuncRaise


(***************************************************************************)
(* Session and Message (models/session.py, models/message.py) and the      *)
(* session store facade SessionService (services/session_service.py).      *)
(* The clock unit is one hour.                                             *)
(***************************************************************************)
\* SESSION_TIMEOUT_HOURS (default 24) and MAX_CONVERSATION_HISTORY (default 100),
\* scaled down
session_timeout_hours == 2
max_conversation_history == 2

MaxMsgs == 3

Users == {"u1", "u2"}
SessionIds == {"s1", "s2"}      \* ids uuid4() can hand out
ClientIds == {"c1"}             \* a session id a client made up
AllIds == SessionIds \cup ClientIds
HTTPException == [exception |-> "HTTPException"]

\* the environment of one facade operation: is there a table at all, and does
\* this operation's get_item or its put_item raise ClientError (no operation
\* reaches put_item after its get_item raised)
Envs ==
    IF faults = "none" THEN {[no_table |-> FALSE, get_raises |-> FALSE, put_raises |-> FALSE]}
    ELSE IF faults = "no_table"
         THEN {[no_table |-> TRUE, get_raises |-> FALSE, put_raises |-> FALSE]}
         ELSE {[no_table |-> FALSE, get_raises |-> FALSE, put_raises |-> FALSE],
               [no_table |-> FALSE, get_raises |-> TRUE, put_raises |-> FALSE],
               [no_table |-> FALSE, get_raises |-> FALSE, put_raises |-> TRUE]}

Max(a, b) == IF a > b THEN a ELSE b

\* Python's lst[-n:] for n >= 0
last_n(lst, n) ==
    IF n = 0 THEN lst ELSE SubSeq(lst, Max(1, Len(lst) - n + 1), Len(lst))

\* A plausible slip: >= where the code has >.
is_expired_at_timeout(session, t, timeout_hours) ==
    (t - session.last_activity) * 3600 >= timeout_hours * 3600

\* Session.is_expired
is_expired(session, t, timeout_hours) ==
    (t - session.last_activity) * 3600 > timeout_hours * 3600

\* Session.get_recent_messages
get_recent_messages(session, limit) ==
    IF session.conversation_history # <<>>
    THEN last_n(session.conversation_history, limit) ELSE <<>>

\* SessionService._get_session_from_db
_get_session_from_db(tbl, sid, env) ==
    IF env.no_table THEN NoItem
    ELSE IF env.get_raises THEN NoItem
    ELSE tbl[sid]

\* A plausible slip: put_item with a key that is not the session's own id.
store_session_fixed_key(tbl, session, env) ==
    IF env.no_table THEN [raised |-> FALSE, table |-> tbl]
    ELSE IF env.put_raises THEN [raised |-> TRUE, table |-> tbl]
    ELSE [raised |-> FALSE, table |-> [tbl EXCEPT !["s1"] = session]]

\* SessionService._store_session: [raised, table]
_store_session(tbl, session, env) ==
    IF env.no_table THEN [raised |-> FALSE, table |-> tbl]
    ELSE IF env.put_raises THEN [raised |-> TRUE, table |-> tbl]
    ELSE [raised |-> FALSE, table |-> [tbl EXCEPT ![session.session_id] = session]]

\* A plausible slip: the owner of the session is not compared with the caller.
get_session_any_user(tbl, sid, uid, t, env) ==
    LET session == _get_session_from_db(tbl, sid, env) IN
    IF session = NoItem
    THEN [ret |-> NoItem, table |-> tbl, error |-> ~env.no_table /\ env.get_raises]
    ELSE IF is_expired(session, t, session_timeout_hours)
         THEN LET st == _store_session(tbl, [session EXCEPT !.status = "expired"], env) IN
              [ret |-> NoItem, table |-> st.table, error |-> st.raised]
         ELSE [ret |-> session, table |-> tbl, error |-> FALSE]

\* A plausible slip: the expiry is checked, and written back, before the owner.
get_session_expiry_first(tbl, sid, uid, t, env) ==
    LET session == _get_session_from_db(tbl, sid, env) IN
    IF session = NoItem
    THEN [ret |-> NoItem, table |-> tbl, error |-> ~env.no_table /\ env.get_raises]
    ELSE IF is_expired(session, t, session_timeout_hours)
         THEN LET st == _store_session(tbl, [session EXCEPT !.status = "expired"], env) IN
              [ret |-> NoItem, table |-> st.table, error |-> st.raised]
         ELSE IF session.user_id # uid THEN [ret |-> NoItem, table |-> tbl, error |-> FALSE]
         ELSE [ret |-> session, table |-> tbl, error |-> FALSE]

\* In the results of the facade operations, error tells whether a call of the
\* table raised inside the operation.
\* SessionService.get_session: [ret, table, error]
get_session(tbl, sid, uid, t, env) ==
    LET session == _get_session_from_db(tbl, sid, env)
        read_error == ~env.no_table /\ env.get_raises IN
    IF session = NoItem THEN [ret |-> NoItem, table |-> tbl, error |-> read_error]
    ELSE IF session.user_id # uid THEN [ret |-> NoItem, table |-> tbl, error |-> FALSE]
    ELSE IF is_expired(session, t, session_timeout_hours)
         THEN LET st == _store_session(tbl, [session EXCEPT !.status = "expired"], env) IN
              [ret |-> NoItem, table |-> st.table, error |-> st.raised]
         ELSE [ret |-> session, table |-> tbl, error |-> FALSE]

\* A plausible slip: the result of the write is not looked at.
update_session_always_true(tbl, session, env) ==
    LET st == _store_session(tbl, session, env) IN
    [ret |-> TRUE, table |-> st.table, error |-> st.raised]

\* SessionService.update_session: [ret, table, error]
update_session(tbl, session, env) ==
    LET st == _store_session(tbl, session, env) IN
    [ret |-> ~st.raised, table |-> st.table, error |-> st.raised]

\* A plausible slip: the history is cut to cap + 1 messages.
trim_off_by_one(history, cap) ==
    IF Len(history) > cap + 1 THEN last_n(history, cap + 1) ELSE history

\* the trimming of add_message_to_session (lines 171-172)
trim(history, cap) ==
    IF Len(history) > cap THEN last_n(history, cap) ELSE history

\* A plausible slip: the message is put in front of the history.
with_message_in_front(session, sid, message, t) ==
    LET msg == [message EXCEPT !.session_id = sid]
        added == [session EXCEPT
                    !.conversation_history = <<msg>> \o @,
                    !.last_activity = t]
    IN [added EXCEPT !.conversation_history = trim(@, max_conversation_history)]

\* add_message_to_session lines 164-172, on the caller's local Session:
\* message.session_id = session_id; session.add_message(message); the trimming
with_message(session, sid, message, t) ==
    LET msg == [message EXCEPT !.session_id = sid]
        added == [session EXCEPT
                    !.conversation_history = Append(@, msg),
                    !.last_activity = t]
    IN [added EXCEPT !.conversation_history = trim(@, max_conversation_history)]

\* SessionService.add_message_to_session: [ret, table]
add_message_to_session(tbl, sid, uid, message, t, env) ==
    LET g == get_session(tbl, sid, uid, t, env) IN
    IF g.ret = NoItem THEN [ret |-> FALSE, table |-> g.table, error |-> g.error]
    ELSE update_session(g.table, with_message(g.ret, sid, message, t), env)

\* SessionService.delete_session: [ret, table]
delete_session(tbl, sid, uid, t, env) ==
    LET g == get_session(tbl, sid, uid, t, env) IN
    IF g.ret = NoItem THEN [ret |-> FALSE, table |-> g.table, error |-> g.error]
    ELSE update_session(g.table, [g.ret EXCEPT !.status = "archived"], env)

\* the elements of a set of sessions as a list, the most recently active first
\* (sessions.sort(key=last_activity, reverse=True) over the scanned items)
RECURSIVE by_last_activity(_)
by_last_activity(sessions) ==
    IF sessions = {} THEN <<>>
    ELSE LET first == CHOOSE x \in sessions :
                        \A y \in sessions : x.last_activity >= y.last_activity
         IN <<first>> \o by_last_activity(sessions \ {first})

\* SessionService.list_user_sessions: [ret, table]; the scan returns the
\* user's items; an expired one is stored back with status expired
list_user_sessions(tbl, uid, active_only, t, env) ==
    IF env.no_table \/ env.get_raises
    THEN [ret |-> <<>>, table |-> tbl, error |-> ~env.no_table]
    ELSE LET own == { sid \in AllIds : tbl[sid] # NoItem /\ tbl[sid].user_id = uid }
             expired == { sid \in own : is_expired(tbl[sid], t, session_timeout_hours) }
             seen == [sid \in own |->
                        IF sid \in expired THEN [tbl[sid] EXCEPT !.status = "expired"]
                        ELSE tbl[sid]]
             listed == { seen[sid] : sid \in { x \in own :
                                       ~active_only \/ seen[x].status = "active" } }
         IN IF expired # {} /\ env.put_raises
            THEN [ret |-> <<>>, table |-> tbl, error |-> TRUE]
            ELSE [ret |-> by_last_activity(listed), error |-> FALSE,
                  table |-> [sid \in AllIds |-> IF sid \in expired THEN seen[sid]
                                                ELSE tbl[sid]]]

\* Session(...) as create_session constructs it
\* A plausible slip: the timestamps are taken from a clock that runs ahead of
\* datetime.now(UTC) (local time instead of UTC).
NewSessionLocalTime(sid, uid, kb, t) ==
    [session_id |-> sid, user_id |-> uid, created_at |-> t + 1, last_activity |-> t + 1,
     knowledge_base_id |-> kb, conversation_history |-> <<>>, status |-> "active"]

NewSession(sid, uid, kb, t) ==
    [session_id |-> sid, user_id |-> uid, created_at |-> t, last_activity |-> t,
     knowledge_base_id |-> kb, conversation_history |-> <<>>, status |-> "active"]

\* SessionService.create_session: [ret, table]; ret is the session or HTTPException
create_session(tbl, sid, uid, kb, t, env) ==
    LET st == _store_session(tbl, NewSession(sid, uid, kb, t), env) IN
    IF st.raised THEN [ret |-> HTTPException, table |-> tbl, error |-> TRUE]
    ELSE [ret |-> NewSession(sid, uid, kb, t), table |-> st.table, error |-> FALSE]

\* Message(...) as the callers construct it; message_id stands for uuid4()
NewMessage(n, sid, content, type) ==
    [message_id |-> n, session_id |-> sid, content |-> content, message_type |-> type]

\* seq alternates with every facade operation
NoOp == [op |-> "none", seq |-> 0]

\* session ids a caller can pass: the ones of the stored sessions, and made-up ones
RequestIds == { sid \in SessionIds : table[sid] # NoItem } \cup ClientIds

StoreEmpty ==
    /\ table = [sid \in AllIds |-> NoItem]
    /\ last_op = NoOp
    /\ msg_seq = 0

CreateSession ==
    \E uid \in Users, env \in Envs, sid \in uuids :
        LET r == create_session(table, sid, uid, NoKb, now, env) IN
        /\ table' = r.table
        /\ uuids' = uuids \ {sid}
        /\ last_op' = [op |-> "create", seq |-> 1 - last_op.seq, sid |-> sid, uid |-> uid,
                       ret |-> r.ret, failed |-> r.error,
                       raised |-> IF r.ret = HTTPException THEN "HTTPException"
                                  ELSE "none"]
        /\ UNCHANGED <<faults, msg_seq, classifier_vars, agent_vars, breaker_vars, now, monitoring_vars, callers, command_vars>>

GetSession ==
    \E sid \in RequestIds, uid \in Users, env \in Envs :
        LET r == get_session(table, sid, uid, now, env) IN
        /\ table' = r.table
        /\ last_op' = [op |-> "get", seq |-> 1 - last_op.seq, sid |-> sid, uid |-> uid,
                       ret |-> r.ret, failed |-> r.error, raised |-> "none"]
        /\ UNCHANGED <<faults, msg_seq, uuids, classifier_vars, agent_vars, breaker_vars, now, monitoring_vars, callers, command_vars>>

AddMessage ==
    /\ msg_seq < MaxMsgs
    /\ \E sid \in RequestIds, uid \in Users, env \in Envs :
        LET message == NewMessage(msg_seq + 1, sid, <<"h", "i">>, "user")
            r == add_message_to_session(table, sid, uid, message, now, env) IN
        /\ table' = r.table
        /\ msg_seq' = msg_seq + 1
        /\ last_op' = [op |-> "add", seq |-> 1 - last_op.seq, sid |-> sid, uid |-> uid,
                       ret |-> r.ret, failed |-> r.error, raised |-> "none",
                       message_id |-> msg_seq + 1,
                       len_before |-> IF table[sid] = NoItem THEN 0
                                      ELSE Len(table[sid].conversation_history)]
        /\ UNCHANGED <<faults, uuids, classifier_vars, agent_vars, breaker_vars, now, monitoring_vars, callers, command_vars>>

DeleteSession ==
    \E sid \in RequestIds, uid \in Users, env \in Envs :
        LET r == delete_session(table, sid, uid, now, env) IN
        /\ table' = r.table
        /\ last_op' = [op |-> "delete", seq |-> 1 - last_op.seq, sid |-> sid, uid |-> uid,
                       ret |-> r.ret, failed |-> r.error, raised |-> "none"]
        /\ UNCHANGED <<faults, msg_seq, uuids, classifier_vars, agent_vars, breaker_vars, now, monitoring_vars, callers, command_vars>>

\* routers/sessions.py lines 196-225: the caller fetches the session, sets its
\* knowledge_base_id and calls update_session with it
UpdateSession ==
    \E sid \in RequestIds, uid \in Users, kb \in {"kb1"}, env \in Envs :
        LET g == get_session(table, sid, uid, now, env)
            r == update_session(g.table, [g.ret EXCEPT !.knowledge_base_id = kb], env) IN
        /\ g.ret # NoItem
        /\ table' = r.table
        /\ last_op' = [op |-> "update", seq |-> 1 - last_op.seq, sid |-> sid, uid |-> uid,
                       ret |-> r.ret, failed |-> r.error, raised |-> "none"]
        /\ UNCHANGED <<faults, msg_seq, uuids, classifier_vars, agent_vars, breaker_vars, now,
                       monitoring_vars, callers, command_vars>>

ListSessions ==
    \E uid \in Users, active_only \in BOOLEAN, env \in Envs :
        LET r == list_user_sessions(table, uid, active_only, now, env) IN
        /\ table' = r.table
        /\ last_op' = [op |-> "list", seq |-> 1 - last_op.seq, uid |-> uid,
                       active_only |-> active_only,
                       ret |-> r.ret, failed |-> r.error, raised |-> "none"]
        /\ UNCHANGED <<faults, msg_seq, uuids, classifier_vars, agent_vars, breaker_vars, now,
                       monitoring_vars, callers, command_vars>>

NextSession == Tick \/ CreateSession \/ GetSession \/ AddMessage \/ DeleteSession

\* every operation of the facade
NextFacade ==
    \/ Tick
    \/ CreateSession
    \/ GetSession
    \/ UpdateSession
    \/ AddMessage
    \/ ListSessions
    \/ DeleteSession

(***************************************************************************)
(* add_message_to_session called by two callers at once (two requests, in  *)
(* one worker or in two).  A call reads the record (get_session, line      *)
(* 159), changes its local Session (lines 164-172) and writes the record   *)
(* back (update_session, line 175): the read and the write are separate    *)
(* operations on the table, and the write is an unconditional put_item.    *)
(***************************************************************************)
Callers == {"w1", "w2"}

NoCall == [pc |-> "idle"]

CallersIdle == callers = [c \in Callers |-> NoCall]

\* a caller enters add_message_to_session(session_id, user_id, message) and
\* reads the record: `session = await self.get_session(session_id, user_id)`;
\* finished names the callers whose call had returned by then
AppendRead(c) ==
    /\ callers[c].pc = "idle"
    /\ msg_seq < MaxMsgs
    /\ \E sid \in RequestIds, uid \in Users, env \in Envs :
        LET message == NewMessage(msg_seq + 1, sid, <<"h", "i">>, "user")
            g == get_session(table, sid, uid, now, env) IN
        /\ table' = g.table
        /\ callers' = [callers EXCEPT ![c] =
                [pc |-> IF g.ret = NoItem THEN "returned" ELSE "read",
                 session_id |-> sid, user_id |-> uid, message |-> message,
                 session |-> IF g.ret = NoItem THEN NoItem
                             ELSE with_message(g.ret, sid, message, now),
                 ret |-> FALSE,
                 finished |-> { d \in Callers : callers[d].pc = "returned" }]]
    /\ msg_seq' = msg_seq + 1
    /\ UNCHANGED <<faults, last_op, uuids, classifier_vars, agent_vars, breaker_vars, now,
                   monitoring_vars, command_vars>>

\* `return await self.update_session(session)` with the local Session
AppendWrite(c) ==
    /\ callers[c].pc = "read"
    /\ \E env \in Envs :
        LET u == update_session(table, callers[c].session, env) IN
        /\ table' = u.table
        /\ callers' = [callers EXCEPT ![c].pc = "returned", ![c].ret = u.ret]
    /\ UNCHANGED <<faults, last_op, msg_seq, uuids, classifier_vars, agent_vars,
                   breaker_vars, now, monitoring_vars, command_vars>>

NextAppend ==
    \/ Tick
    \/ CreateSession
    \/ \E c \in Callers : AppendRead(c)
    \/ \E c \in Callers : AppendWrite(c)

(***************************************************************************)
(* Concurrent calls on one circuit breaker.  The callers are coroutines of *)
(* one event loop.  CircuitBreaker.call (lines 222-238) is a plain `def`   *)
(* with no await in it: the OPEN test, the call of func and the recording  *)
(* of its outcome run without another coroutine in between.  A wrapped     *)
(* coroutine function or async generator function returns its awaitable at *)
(* once; its body runs after call has returned, when the wrapper awaits it *)
(* (line 277) or the caller iterates it.                                   *)
(***************************************************************************)
\* what func(*args, **kwargs) does inside CircuitBreaker.call
FuncOutcomes == {"returns", "returns_awaitable", "raises"}

\* the fields of the breaker after self._on_success() or self._on_failure(),
\* for a call that found the breaker in state st
recorded(outcome, st) ==
    IF outcome = "raises"
    THEN _on_failure(failure_count, st, now, failure_threshold)
    ELSE [failure_count |-> _on_success(failure_count).failure_count,
          last_failure_time |-> last_failure_time,
          state |-> _on_success(failure_count).state]

\* A plausible slip: call is a coroutine that awaits func before it records the
\* outcome, so that other callers run while the breaker is HALF_OPEN.
SharedCallSuspending(c) ==
    /\ \/ /\ callers[c] = NoCall
          /\ attempts < MaxCalls
          /\ attempts' = attempts + 1
          /\ prev' = BreakerFields
          /\ IF state = "OPEN"
                /\ ~_should_attempt_reset(last_failure_time, now, recovery_timeout)
             THEN /\ call_result' = "circuit_open"
                  /\ UNCHANGED <<state, func_calls, callers>>
             ELSE /\ state' = IF state = "OPEN" THEN "HALF_OPEN" ELSE state
                  /\ func_calls' = func_calls + 1
                  /\ call_result' = "pending"
                  /\ callers' = [callers EXCEPT ![c] =
                                    [pc |-> "in_call", trial |-> state = "OPEN"]]
          /\ UNCHANGED <<failure_count, last_failure_time, streak, trial_failed_at>>
       \/ /\ callers[c] # NoCall
          /\ callers[c].pc = "in_call"
          /\ \E outcome \in {"returns", "raises"} :
                LET r == recorded(outcome, state) IN
                /\ failure_count' = r.failure_count
                /\ last_failure_time' = r.last_failure_time
                /\ state' = r.state
                /\ call_result' = IF outcome = "raises" THEN "error" ELSE "ok"
                /\ streak' = IF outcome = "raises" THEN streak + 1 ELSE 0
          /\ callers' = [callers EXCEPT ![c] = NoCall]
          /\ UNCHANGED <<func_calls, attempts, prev, trial_failed_at>>
    /\ UNCHANGED <<failure_threshold, recovery_timeout, bpc>>
    /\ UNCHANGED <<classifier_vars, agent_vars, now, monitoring_vars, store_vars, command_vars>>

\* a caller runs circuit_breaker.call(func, ...) (with_circuit_breaker lines
\* 276-279): the whole of CircuitBreaker.call, in one step of the event loop
SharedCall(c) ==
    /\ callers[c] = NoCall
    /\ attempts < MaxCalls
    /\ attempts' = attempts + 1
    /\ prev' = BreakerFields
    /\ IF state = "OPEN" /\ ~_should_attempt_reset(last_failure_time, now, recovery_timeout)
       THEN /\ call_result' = "circuit_open"
            /\ UNCHANGED <<state, func_calls, failure_count, last_failure_time,
                           streak, trial_failed_at, callers>>
       ELSE \E outcome \in FuncOutcomes :
            LET st == IF state = "OPEN" THEN "HALF_OPEN" ELSE state
                r == recorded(outcome, st) IN
            /\ func_calls' = func_calls + 1
            /\ failure_count' = r.failure_count
            /\ last_failure_time' = r.last_failure_time
            /\ state' = r.state
            /\ call_result' = IF outcome = "raises" THEN "error" ELSE "ok"
            /\ streak' = IF outcome = "raises" THEN streak + 1 ELSE 0
            /\ trial_failed_at' = IF outcome # "raises" THEN NoTime
                                  ELSE IF st = "HALF_OPEN" THEN now ELSE trial_failed_at
            /\ callers' = [callers EXCEPT ![c] =
                    IF outcome = "returns_awaitable"
                    THEN [pc |-> "body", trial |-> st = "HALF_OPEN"]
                    ELSE NoCall]
    /\ UNCHANGED <<failure_threshold, recovery_timeout, bpc>>
    /\ UNCHANGED <<classifier_vars, agent_vars, now, monitoring_vars, store_vars, command_vars>>

\* the awaitable that func returned finishes, with a result or an exception:
\* this happens outside CircuitBreaker.call and the breaker is not touched
BodyEnd(c) ==
    /\ callers[c] # NoCall
    /\ callers[c].pc = "body"
    /\ callers' = [callers EXCEPT ![c] = NoCall]
    /\ UNCHANGED <<classifier_vars, agent_vars, breaker_vars, now, monitoring_vars,
                   store_vars, command_vars>>

NextShared ==
    \/ Tick
    \/ \E c \in Callers : SharedCall(c)
    \/ \E c \in Callers : BodyEnd(c)

(***************************************************************************)
(* The request to the chat model: BedrockService._prepare_nova_pro_request *)
(* (bedrock_service.py), called by generate_response without a system      *)
(* prompt.                                                                 *)
(***************************************************************************)
\* the number of history messages fetched (limit=10, integration_service.py
\* line 268) and sent ([-10:], bedrock_service.py line 165); 10 in the code,
\* scaled
history_limit == 2

\* the message types the program stores in a session: USER (line 85), AGENT
\* (line 181), ASSISTANT (line 242, and bedrock_service.py line 280)
MessageTypes == {"user", "assistant", "agent"}

RequestEntry(role, content) == [role |-> role, content |-> content]

\* conversation_history[-10:]
window(history, n) == last_n(history, n)

\* lines 178-182: the current user message is appended
append_current(entries, text) ==
    Append(entries, RequestEntry("user", text))

\* lines 165-176: one entry for every USER and every ASSISTANT message, in the
\* order of the list; messages of the other types are passed over
RECURSIVE history_entries(_)
history_entries(msgs) ==
    IF msgs = <<>> THEN <<>>
    ELSE LET msg == Head(msgs) IN
         IF msg.message_type = "user"
         THEN <<RequestEntry("user", msg.content)>> \o history_entries(Tail(msgs))
         ELSE IF msg.message_type = "assistant"
         THEN <<RequestEntry("assistant", msg.content)>> \o history_entries(Tail(msgs))
         ELSE history_entries(Tail(msgs))

\* the `messages` of the request body
_prepare_nova_pro_request(text, conversation_history) ==
    append_current(
        IF conversation_history # <<>>
        THEN history_entries(window(conversation_history, history_limit))
        ELSE <<>>,
        text)

\* the prior turns a request is prepared from: up to history_limit + 2 messages
\* of session s1, of any of these types
RECURSIVE Copies(_, _)
Copies(c, n) == IF n = 0 THEN <<>> ELSE <<c>> \o Copies(c, n - 1)

PriorTurns ==
    UNION { [1..n -> MessageTypes] : n \in 0..(history_limit + 2) }

TurnsOf(types) ==
    [i \in DOMAIN types |-> NewMessage(i, "s1", Copies("m", i), types[i])]

\* generate_response(user_message, conversation_history) prepares the request
PrepareRequest ==
    /\ ipc = "off"
    /\ inv' = [inv EXCEPT !.messages =
                  _prepare_nova_pro_request(inv.user_message, inv.conversation_history)]
    /\ ipc' = "done"
    /\ UNCHANGED <<fragments, events, raised, classifier_vars, agent_vars, breaker_vars,
                   now, monitoring_vars, callers, store_vars>>

NextChat == PrepareRequest


(***************************************************************************)
(* Integration orchestrator: IntegrationService.process_user_command and   *)
(* the decorators around it and around the three handlers.                 *)
(*                                                                         *)
(* process_user_command and the handlers are async generator functions     *)
(* (async def with yield).  Both decorators replace the function by        *)
(* `async def wrapper`, a coroutine function: calling the decorated name   *)
(* returns a coroutine, which has no __aiter__.  Awaiting the wrapper runs *)
(* `asyncio.iscoroutinefunction(func)`, false for an async generator       *)
(* function, and returns what func returns: the generator object, its body *)
(* not started, after the wrapper's try block has been left.               *)
(***************************************************************************)
\* what calling a name decorated with handle_integration_errors returns
handle_integration_errors_call == "coroutine"

\* what awaiting that coroutine returns for an async generator function:
\* wrapper lines 162-167, the non-coroutine branch
handle_integration_errors_await == "async_generator"

\* what calling a name decorated with with_circuit_breaker returns
with_circuit_breaker_call == "coroutine"

\* `async for x in obj`: iterates an async generator, TypeError for anything
\* without __aiter__
async_for(obj) == IF obj = "async_generator" THEN "iterate" ELSE "TypeError"

AgentText == <<"t","i","m","e">>
KbText == <<"k","b",":"," ","d","o","c","s">>
ChatText == <<"d","o","c","s">>

\* Message.__post_init__ line 37: the longest content a Message accepts (10000
\* characters in the code, scaled)
max_content_length == 8

\* a text of blanks only, and a text one character over the limit
BlankText == <<" ">>
LongText == [i \in 1..(max_content_length + 1) |-> "x"]
CommandTexts == {AgentText, KbText, ChatText, BlankText, LongText}

\* Message.__post_init__ for a message with a session_id and the current time as
\* timestamp: ValueError for content that is empty after strip(), and for
\* content longer than the limit
post_init(content) ==
    IF strip(content) = <<>> THEN "ValueError"
    ELSE IF Len(content) > max_content_length THEN "ValueError"
    ELSE "none"

\* what knowledge_base_service.list_knowledge_bases does during an invocation:
\* it returns the list of knowledge bases, or raises HTTPException
KbListings ==
    {[raises |-> FALSE, list |-> <<>>], [raises |-> FALSE, list |-> <<"kb1">>],
     [raises |-> TRUE, list |-> <<>>]}

\* invocations of process_user_command in one behaviour
MaxCommands == 1

\* how the caller consumes process_user_command(...): `async for` over the call
\* (routers/websocket.py line 187), or await the call and iterate what it returns
Consumers == {"async_for", "await_then_async_for"}

Fragment(type, content, error_type) ==
    [type |-> type, content |-> content, error_type |-> error_type]

\* IntegrationErrorHandler.create_error_response
create_error_response(message, error_type) == Fragment("error", message, error_type)

\* IntegrationService._create_status_response
_create_status_response(message) == Fragment("status", message, "none")

\* the caller calls integration_service.process_user_command(...) with one of
\* the given texts
StartCommandWith(texts, consumers, listings) ==
    /\ ipc \in {"off", "done"}
    /\ inv.n < MaxCommands
    /\ msg_seq < MaxMsgs
    /\ \E sid \in RequestIds, text \in texts, uid \in Users,
          kb \in {NoKb, "kb1"}, consumer \in consumers, kb_list \in listings :
        inv' = [n |-> inv.n + 1,
                session_id |-> sid, user_message |-> text, user_id |-> uid,
                knowledge_base_id |-> kb, consumer |-> consumer, kb_list |-> kb_list,
                session |-> NoItem, command_type |-> "none",
                call |-> handle_integration_errors_call, adapter |-> "idle"]
    /\ fragments' = <<>>
    /\ events' = <<>>
    /\ raised' = "none"
    /\ ipc' = "called"
    /\ UNCHANGED <<classifier_vars, agent_vars, breaker_vars, now, monitoring_vars, callers, store_vars>>

StartCommand == StartCommandWith(CommandTexts, Consumers, KbListings)

\* a general-AI command of a caller that awaits the call and iterates the result
StartChat ==
    StartCommandWith({ChatText}, {"await_then_async_for"},
                     {[raises |-> FALSE, list |-> <<>>]})

\* websocket.py line 187: `async for response in process_user_command(...)`
ConsumeCall ==
    /\ ipc = "called"
    /\ inv.consumer = "async_for"
    /\ IF async_for(inv.call) = "TypeError"
       THEN raised' = "TypeError" /\ ipc' = "done"
       ELSE raised' = raised /\ ipc' = "resolve"
    /\ UNCHANGED <<inv, fragments, events, classifier_vars, agent_vars, breaker_vars, now, monitoring_vars, callers, store_vars>>

\* a caller that awaits the wrapper and iterates the generator it returns
AwaitCall ==
    /\ ipc = "called"
    /\ inv.consumer = "await_then_async_for"
    /\ IF async_for(handle_integration_errors_await) = "TypeError"
       THEN raised' = "TypeError" /\ ipc' = "done"
       ELSE raised' = raised /\ ipc' = "resolve"
    /\ UNCHANGED <<inv, fragments, events, classifier_vars, agent_vars, breaker_vars, now, monitoring_vars, callers, store_vars>>

\* lines 75-79 and _get_or_create_session (lines 108-134)
ResolveSession ==
    /\ ipc = "resolve"
    /\ \E env \in Envs :
        LET g == get_session(table, inv.session_id, inv.user_id, now, env) IN
        IF g.ret = NoItem
        THEN \E sid \in uuids :
                LET c == create_session(g.table, sid, inv.user_id,
                                        inv.knowledge_base_id, now, env) IN
                /\ table' = c.table
                /\ uuids' = uuids \ {sid}
                /\ IF c.ret = HTTPException
                   THEN /\ fragments' = Append(fragments,
                               create_error_response("Failed to create or retrieve session",
                                                     "general_error"))
                        /\ events' = Append(events, [kind |-> "emit", type |-> "error"])
                        /\ ipc' = "done"
                        /\ inv' = inv
                   ELSE /\ inv' = [inv EXCEPT !.session = c.ret]
                        /\ ipc' = "persist_inbound"
                        /\ UNCHANGED <<fragments, events>>
        ELSE /\ IF inv.knowledge_base_id # NoKb
                   /\ g.ret.knowledge_base_id # inv.knowledge_base_id
                THEN LET session == [g.ret EXCEPT
                                        !.knowledge_base_id = inv.knowledge_base_id] IN
                     /\ inv' = [inv EXCEPT !.session = session]
                     /\ table' = update_session(g.table, session, env).table
                ELSE /\ inv' = [inv EXCEPT !.session = g.ret]
                     /\ table' = g.table
             /\ ipc' = "persist_inbound"
             /\ UNCHANGED <<uuids, fragments, events>>
    /\ UNCHANGED <<raised, faults, last_op, msg_seq, classifier_vars, agent_vars, breaker_vars, now, monitoring_vars, callers>>

\* an exception leaves the generator body and reaches the consumer
Raise(exception) ==
    /\ raised' = exception
    /\ ipc' = "done"

\* lines 81-90: the user message is built with the caller's session_id
\* (Message.__post_init__ raises ValueError for a blank or over-long text, in
\* the generator body and outside any try) and appended under that id; the
\* return value of the append is not looked at
PersistInbound ==
    /\ ipc = "persist_inbound"
    /\ IF post_init(inv.user_message) # "none"
       THEN /\ Raise(post_init(inv.user_message))
            /\ UNCHANGED <<table, msg_seq, events>>
       ELSE /\ \E env \in Envs :
                LET user_msg == NewMessage(msg_seq + 1, inv.session_id,
                                           inv.user_message, "user")
                    r == add_message_to_session(table, inv.session_id, inv.user_id,
                                                user_msg, now, env) IN
                /\ table' = r.table
                /\ events' = Append(events, [kind |-> "persist", type |-> "user",
                                             sid |-> inv.session_id, ret |-> r.ret])
            /\ msg_seq' = msg_seq + 1
            /\ ipc' = "ack"
            /\ raised' = raised
    /\ UNCHANGED <<inv, fragments, faults, last_op, uuids,
                   classifier_vars, agent_vars, breaker_vars, now, monitoring_vars, callers>>

\* line 93: yield the acknowledgment
EmitAck ==
    /\ ipc = "ack"
    /\ fragments' = Append(fragments, _create_status_response("Processing your request..."))
    /\ events' = Append(events, [kind |-> "emit", type |-> "status"])
    /\ ipc' = "dispatch"
    /\ UNCHANGED <<inv, raised, classifier_vars, agent_vars, breaker_vars, now, monitoring_vars, callers, store_vars>>

\* lines 95-106: classify, then `async for response in self._handle_...(...)`
\* over what the decorated handler returns.  The exception is raised in the
\* generator body, after the wrapper of handle_integration_errors has returned,
\* and reaches the consumer.
Dispatch ==
    /\ ipc = "dispatch"
    /\ inv' = [inv EXCEPT !.command_type = _classify_command(inv.user_message)]
    /\ IF async_for(with_circuit_breaker_call) = "TypeError"
       THEN raised' = "TypeError" /\ ipc' = "done"
       ELSE raised' = raised /\ ipc' = "in_handler"
    /\ UNCHANGED <<fragments, events, classifier_vars, agent_vars, breaker_vars, now, monitoring_vars, callers, store_vars>>

NextCommand ==
    \/ Tick
    \/ CreateSession
    \/ StartCommand
    \/ ConsumeCall
    \/ AwaitCall
    \/ ResolveSession
    \/ PersistInbound
    \/ EmitAck
    \/ Dispatch

\* invocations of process_user_command over several sessions
NextIsolation ==
    \/ Tick
    \/ CreateSession
    \/ StartChat
    \/ AwaitCall
    \/ ResolveSession
    \/ PersistInbound
    \/ EmitAck
    \/ Dispatch

(***************************************************************************)
(* The command passed to the tool agent: _handle_agent_command lines       *)
(* 161-168.  self.agent_commands is a set of str: the order in which the   *)
(* loop visits its terms is the set's iteration order, which depends on    *)
(* the hashes of the strings (randomised per process) and not on the       *)
(* message.                                                                *)
(***************************************************************************)
\* the terms of each kind of command, as AgentService.invoke_agent groups them
CommandGroups ==
    <<<<<<"t","i","m","e">>, <<"c","u","r","r","e","n","t","_","t","i","m","e">>, <<"g","e","t","_","t","i","m","e">>>>,
      <<<<"d","a","t","e">>, <<"c","u","r","r","e","n","t","_","d","a","t","e">>, <<"g","e","t","_","d","a","t","e">>>>,
      <<<<"w","e","a","t","h","e","r">>, <<"c","u","r","r","e","n","t","_","w","e","a","t","h","e","r">>, <<"g","e","t","_","w","e","a","t","h","e","r">>>>,
      <<<<"a","l","l">>, <<"a","l","l","_","i","n","f","o">>, <<"e","v","e","r","y","t","h","i","n","g">>>>>>

\* iteration orders of self.agent_commands: the four groups in any order (some
\* of the orders a process can have)
IterationOrders ==
    { CommandGroups[p[1]] \o CommandGroups[p[2]] \o CommandGroups[p[3]]
        \o CommandGroups[p[4]] :
        p \in { q \in [1..4 -> 1..4] : \A i, j \in 1..4 : q[i] = q[j] => i = j } }

\* `for cmd in self.agent_commands: if cmd in message_lower: ...; break`,
\* "all" when the loop ends without a match
RECURSIVE first_in_order(_, _)
first_in_order(order, message_lower) ==
    IF order = <<>> THEN <<"a","l","l">>
    ELSE IF contains(message_lower, Head(order)) THEN Head(order)
    ELSE first_in_order(Tail(order), message_lower)

\* lines 161-168
extract_agent_command(text, order) == first_in_order(order, strip(lower(text)))

\* messages for the agent handler: one term, two terms in either order, none
NormalizeTexts ==
    {<<"w","e","a","t","h","e","r"," ","t","i","m","e">>, <<"t","i","m","e"," ","w","e","a","t","h","e","r">>, <<"D","a","t","e">>, <<"h","e","l","l","o">>, <<"a","l","l"," ","t","i","m","e">>, <<"t","i","m","e"," ","d","a","t","e">>, <<" ","g","e","t","_","w","e","a","t","h","e","r"," ">>}

\* the loop of lines 165-168 runs for a message
ExtractCommand ==
    /\ ipc = "off"
    /\ inv' = [inv EXCEPT !.agent_command =
                  extract_agent_command(inv.user_message, inv.order)]
    /\ ipc' = "done"
    /\ UNCHANGED <<fragments, events, raised, classifier_vars, agent_vars, breaker_vars,
                   now, monitoring_vars, callers, store_vars>>

NextNormalize == ExtractCommand

(***************************************************************************)
(* The three handlers, run on their own: the caller awaits the decorated   *)
(* handler (the wrapper of with_circuit_breaker, through                   *)
(* CircuitBreaker.call) and iterates the generator it returns.  This is    *)
(* the one way the handler bodies run; process_user_command iterates the   *)
(* un-awaited call instead (Dispatch above).                               *)
(***************************************************************************)
Handlers == {"agent", "knowledge_base", "general_ai"}

\* text chunks a streaming adapter yields, the empty and the blank one included
Chunks == {<<"a">>, <<" ">>, <<>>}

\* chunks of one stream
MaxChunks == 2

\* IntegrationService._create_streaming_response
_create_streaming_response(content) ==
    [type |-> "response", content |-> content, error_type |-> "none", streaming |-> TRUE]

\* IntegrationService._create_agent_response
_create_agent_response(content, agent_data) ==
    [type |-> "agent_response", content |-> content, error_type |-> "none",
     metadata |-> [agent_data |-> agent_data]]

\* with_circuit_breaker, wrapper lines 280-287: the response returned in place
\* of the generator; func.__module__.split('.')[-1].title() of the handlers
circuit_breaker_open_response ==
    create_error_response(
        "Integration_Service is temporarily unavailable. Please try again later.",
        "circuit_breaker_open")

\* a yield of the handler: the consumer receives the fragment
Emit(fragment) ==
    /\ fragments' = Append(fragments, fragment)
    /\ events' = Append(events, [kind |-> "emit", type |-> fragment.type])

\* the text each handler is called with
HandlerText(h) ==
    IF h = "agent" THEN AgentText ELSE IF h = "knowledge_base" THEN KbText ELSE ChatText

\* the caller does what process_user_command does before it dispatches: it
\* fetches the Session (line 76; _get_or_create_session stores a knowledge_base_id
\* the caller passes, lines 125-127), builds the user message and appends it through
\* the facade (lines 82-90), and calls self._handle_...(session, user_message,
\* user_context) with the Session it fetched; one handler run is followed from
\* its call to its end
StartHandler ==
    /\ ipc = "off"
    /\ msg_seq < MaxMsgs
    /\ \E sid \in SessionIds, h \in Handlers, kb \in {NoKb, "kb1"},
          kb_list \in KbListings, env \in Envs :
        /\ table[sid] # NoItem
        /\ LET uid == table[sid].user_id
               g == get_session(table, sid, uid, now, env)
               switch == kb # NoKb /\ g.ret.knowledge_base_id # kb
               session == IF switch THEN [g.ret EXCEPT !.knowledge_base_id = kb]
                          ELSE g.ret
               u == IF switch THEN update_session(g.table, session, env).table
                    ELSE g.table
               user_msg == NewMessage(msg_seq + 1, sid, HandlerText(h), "user")
               r == add_message_to_session(u, sid, uid, user_msg, now, env) IN
            /\ g.ret # NoItem
            /\ inv' = [n |-> inv.n + 1, handler |-> h, session |-> session,
                       user_message |-> HandlerText(h), user_id |-> uid,
                       user_msg |-> [user_msg EXCEPT !.session_id = sid],
                       kb_list |-> kb_list, call |-> with_circuit_breaker_call,
                       returned |-> NoItem, agent_command |-> <<>>, kb_id |-> NoKb,
                       listed |-> FALSE,
                       query |-> <<>>, conversation_history |-> <<>>,
                       messages |-> <<>>,
                       response_content |-> <<>>, chunks |-> 0, adapter |-> "idle"]
            /\ table' = r.table
            /\ events' = <<[kind |-> "persist", type |-> "user", sid |-> sid,
                            ret |-> r.ret]>>
    /\ msg_seq' = msg_seq + 1
    /\ fragments' = <<>>
    /\ raised' = "none"
    /\ ipc' = "h_called"
    /\ agent_response' = [response_type |-> "none"]
    /\ formatted_response' = <<>>
    /\ fpc' = "off"
    /\ UNCHANGED <<faults, last_op, uuids, classifier_vars, breaker_vars, now,
                   monitoring_vars, callers>>

\* with_circuit_breaker, wrapper lines 274-288, and CircuitBreaker.call lines
\* 222-238 with func an async generator function: func(...) builds the generator
\* without running its body, so the call succeeds whenever func is invoked.  An
\* open breaker makes the wrapper return an error response, which the caller's
\* `async for` cannot iterate.
AwaitHandler ==
    /\ ipc = "h_called"
    /\ attempts' = attempts + 1
    /\ prev' = BreakerFields
    /\ IF state = "OPEN" /\ ~_should_attempt_reset(last_failure_time, now, recovery_timeout)
       THEN /\ call_result' = "circuit_open"
            /\ inv' = [inv EXCEPT !.call = "dict", !.returned = circuit_breaker_open_response]
            /\ raised' = IF async_for("dict") = "TypeError" THEN "TypeError" ELSE raised
            /\ ipc' = "done"
            /\ UNCHANGED <<state, failure_count, func_calls, streak, trial_failed_at>>
       ELSE /\ func_calls' = func_calls + 1
            /\ LET r == _on_success(failure_count) IN
                /\ failure_count' = r.failure_count
                /\ state' = r.state
            /\ call_result' = "ok"
            /\ streak' = 0
            /\ trial_failed_at' = NoTime
            /\ inv' = [inv EXCEPT !.call = "async_generator"]
            /\ raised' = raised
            /\ ipc' = IF async_for("async_generator") = "TypeError" THEN "done"
                      ELSE IF inv.handler = "agent" THEN "a_status"
                      ELSE IF inv.handler = "knowledge_base" THEN "k_resolve"
                      ELSE "g_status"
    /\ UNCHANGED <<failure_threshold, recovery_timeout, last_failure_time, bpc>>
    /\ UNCHANGED <<fragments, events, classifier_vars, agent_vars, now, monitoring_vars, callers, store_vars>>

(***************************************************************************)
(* _handle_agent_command, lines 151-199                                    *)
(***************************************************************************)
\* line 159
AgentStatus ==
    /\ ipc = "a_status"
    /\ Emit(_create_status_response("Contacting Birmingham agent..."))
    /\ ipc' = "a_invoke"
    /\ UNCHANGED <<inv, raised, classifier_vars, agent_vars, breaker_vars, now, monitoring_vars, callers, store_vars>>

\* lines 161-175 and 197-199: the command is the first of the set's iteration
\* order that occurs in the text ("all" when none does); the agent is invoked;
\* a successful response is formatted, an error response is emitted as an error
AgentInvoke ==
    /\ ipc = "a_invoke"
    /\ LET message_lower == strip(lower(inv.user_message))
           found == { cmd \in agent_commands : contains(message_lower, cmd) }
           candidates == IF found = {} THEN {<<"a","l","l">>} ELSE found
       IN \E agent_command \in candidates :
           \E response \in invoke_agent(agent_command) :
            /\ agent_response' = response
            /\ metrics' = invoke_agent_records(agent_command, response, metrics)
            /\ adapter_calls' = adapter_calls + 1
            /\ inv' = [inv EXCEPT !.agent_command = agent_command, !.adapter = "invoked"]
            /\ IF is_successful(response)
               THEN /\ formatted_response' = _format_agent_response(response)
                    /\ fpc' = "done"
                    /\ ipc' = "a_persist"
                    /\ UNCHANGED <<fragments, events>>
               ELSE /\ Emit(create_error_response(
                                <<"Agent error: ", response.data.error_message>>,
                                "agent_error"))
                    /\ ipc' = "done"
                    /\ UNCHANGED <<formatted_response, fpc>>
    /\ UNCHANGED <<raised, classifier_vars, breaker_vars, now, callers, store_vars>>

\* lines 177-194: the agent message is appended to the session
AgentPersist ==
    /\ ipc = "a_persist"
    /\ \E env \in Envs :
        LET agent_msg == NewMessage(msg_seq + 1, inv.session.session_id,
                                    formatted_response, "agent")
            r == add_message_to_session(table, inv.session.session_id, inv.user_id,
                                        agent_msg, now, env) IN
        /\ table' = r.table
        /\ events' = Append(events, [kind |-> "persist", type |-> "agent",
                                     sid |-> inv.session.session_id, ret |-> r.ret])
    /\ msg_seq' = msg_seq + 1
    /\ ipc' = "a_emit"
    /\ UNCHANGED <<inv, fragments, raised, faults, last_op, uuids,
                   classifier_vars, agent_vars, breaker_vars, now, monitoring_vars, callers>>

\* line 196
AgentEmit ==
    /\ ipc = "a_emit"
    /\ Emit(_create_agent_response(formatted_response, agent_response))
    /\ ipc' = "done"
    /\ UNCHANGED <<inv, raised, classifier_vars, agent_vars, breaker_vars, now, monitoring_vars, callers, store_vars>>

(***************************************************************************)
(* _handle_knowledge_base_query, lines 201-255                             *)
(***************************************************************************)
\* A plausible slip: the `return` after the error fragment (line 220) is missing.
KbResolveNoReturn ==
    /\ ipc = "k_resolve"
    /\ IF inv.session.knowledge_base_id # NoKb
       THEN /\ inv' = [inv EXCEPT !.kb_id = inv.session.knowledge_base_id]
            /\ ipc' = "k_status"
            /\ UNCHANGED <<table, fragments, events, raised>>
       ELSE IF inv.kb_list.raises
       THEN /\ Raise("HTTPException")
            /\ inv' = [inv EXCEPT !.listed = TRUE]
            /\ UNCHANGED <<table, fragments, events>>
       ELSE IF inv.kb_list.list # <<>>
       THEN \E env \in Envs :
            LET session == [inv.session EXCEPT !.knowledge_base_id = inv.kb_list.list[1]] IN
            /\ inv' = [inv EXCEPT !.kb_id = inv.kb_list.list[1], !.session = session,
                                  !.listed = TRUE]
            /\ table' = update_session(table, session, env).table
            /\ ipc' = "k_status"
            /\ UNCHANGED <<fragments, events, raised>>
       ELSE /\ Emit(create_error_response("No knowledge bases available",
                                          "no_knowledge_bases"))
            /\ inv' = [inv EXCEPT !.listed = TRUE]
            /\ ipc' = "k_status"
            /\ UNCHANGED <<table, raised>>
    /\ UNCHANGED <<faults, last_op, msg_seq, uuids, classifier_vars, agent_vars,
                   breaker_vars, now, monitoring_vars, callers>>

\* lines 209-220: the knowledge base of the session, or the first one listed
KbResolve ==
    /\ ipc = "k_resolve"
    /\ IF inv.session.knowledge_base_id # NoKb
       THEN /\ inv' = [inv EXCEPT !.kb_id = inv.session.knowledge_base_id]
            /\ ipc' = "k_status"
            /\ UNCHANGED <<table, fragments, events, raised>>
       ELSE IF inv.kb_list.raises
       THEN /\ Raise("HTTPException")
            /\ inv' = [inv EXCEPT !.listed = TRUE]
            /\ UNCHANGED <<table, fragments, events>>
       ELSE IF inv.kb_list.list # <<>>
       THEN \E env \in Envs :
            LET session == [inv.session EXCEPT !.knowledge_base_id = inv.kb_list.list[1]] IN
            /\ inv' = [inv EXCEPT !.kb_id = inv.kb_list.list[1], !.session = session,
                                  !.listed = TRUE]
            /\ table' = update_session(table, session, env).table
            /\ ipc' = "k_status"
            /\ UNCHANGED <<fragments, events, raised>>
       ELSE /\ Emit(create_error_response("No knowledge bases available",
                                          "no_knowledge_bases"))
            /\ inv' = [inv EXCEPT !.listed = TRUE]
            /\ ipc' = "done"
            /\ UNCHANGED <<table, raised>>
    /\ UNCHANGED <<faults, last_op, msg_seq, uuids, classifier_vars, agent_vars,
                   breaker_vars, now, monitoring_vars, callers>>

\* line 222
KbStatus ==
    /\ ipc = "k_status"
    /\ Emit(_create_status_response("Searching knowledge base..."))
    /\ ipc' = "k_clean"
    /\ UNCHANGED <<inv, raised, classifier_vars, agent_vars, breaker_vars, now, monitoring_vars, callers, store_vars>>

\* line 225: clean_query = user_message; the loop of lines 226-227 is CleanStep
KbClean ==
    /\ ipc = "k_clean"
    /\ user_message' = inv.user_message
    /\ clean_query' = inv.user_message
    /\ remaining' = knowledge_base_indicators
    /\ cpc' = "clean"
    /\ ipc' = "k_query"
    /\ UNCHANGED <<command_type, inv, fragments, events, raised, agent_vars, breaker_vars,
                   now, monitoring_vars, callers, store_vars>>

\* lines 230-233: the adapter is called with the cleaned query
KbQuery ==
    /\ ipc = "k_query"
    /\ cpc = "done"
    /\ inv' = [inv EXCEPT !.query = clean_query, !.adapter = "invoked"]
    /\ user_message' = <<>>
    /\ clean_query' = <<>>
    /\ cpc' = "off"
    /\ ipc' = "k_stream"
    /\ UNCHANGED <<command_type, remaining, fragments, events, raised, agent_vars,
                   breaker_vars, now, monitoring_vars, callers, store_vars>>

(***************************************************************************)
(* The streaming loop and the final append, the same in both streaming     *)
(* handlers: lines 230-255 and 273-290                                     *)
(***************************************************************************)
\* the adapter yields a chunk: response_content += chunk; yield the fragment
StreamChunk(at) ==
    /\ ipc = at
    /\ inv.chunks < MaxChunks
    /\ \E chunk \in Chunks :
        /\ inv' = [inv EXCEPT !.response_content = @ \o chunk, !.chunks = @ + 1]
        /\ Emit(_create_streaming_response(chunk))
    /\ UNCHANGED <<ipc, raised, classifier_vars, agent_vars, breaker_vars, now, monitoring_vars, callers, store_vars>>

\* the adapter raises HTTPException, before its first chunk or after some
StreamRaise(at) ==
    /\ ipc = at
    /\ inv' = [inv EXCEPT !.adapter = "failed"]
    /\ Raise("HTTPException")
    /\ UNCHANGED <<fragments, events, classifier_vars, agent_vars, breaker_vars, now, monitoring_vars, callers,
                   store_vars>>

\* the stream ends: `if response_content:`
StreamEnd(at, persist) ==
    /\ ipc = at
    /\ inv' = [inv EXCEPT !.adapter = "completed"]
    /\ ipc' = IF inv.response_content # <<>> THEN persist ELSE "done"
    /\ UNCHANGED <<fragments, events, raised, classifier_vars, agent_vars, breaker_vars,
                   now, monitoring_vars, callers, store_vars>>

\* Message.__post_init__ rejects a blank content with ValueError; otherwise the
\* assistant message is appended to the session, the result not looked at
StreamPersist(at) ==
    /\ ipc = at
    /\ IF strip(inv.response_content) = <<>>
       THEN /\ Raise("ValueError")
            /\ UNCHANGED <<table, msg_seq, events>>
       ELSE /\ \E env \in Envs :
                LET msg == NewMessage(msg_seq + 1, inv.session.session_id,
                                      inv.response_content, "assistant")
                    r == add_message_to_session(table, inv.session.session_id,
                                                inv.user_id, msg, now, env) IN
                /\ table' = r.table
                /\ events' = Append(events, [kind |-> "persist", type |-> "assistant",
                                             sid |-> inv.session.session_id,
                                             ret |-> r.ret])
            /\ msg_seq' = msg_seq + 1
            /\ ipc' = "done"
            /\ raised' = raised
    /\ UNCHANGED <<inv, fragments, faults, last_op, uuids, classifier_vars, agent_vars,
                   breaker_vars, now, monitoring_vars, callers>>

\* the consumer stops iterating while the handler is in its streaming loop (the
\* task of routers/websocket.py handle_command_message is cancelled, or it
\* leaves its `async for`): the generator is closed where it is suspended, at
\* the yield of line 235/278 or at the adapter's next chunk; the handlers have
\* no try/finally, so nothing after the loop runs
ConsumerStops(at) ==
    /\ ipc = at
    /\ inv' = [inv EXCEPT !.adapter = "cancelled"]
    /\ ipc' = "done"
    /\ UNCHANGED <<fragments, events, raised, classifier_vars, agent_vars, breaker_vars,
                   now, monitoring_vars, callers, store_vars>>

KbChunk == StreamChunk("k_stream")
KbStops == ConsumerStops("k_stream")
KbRaise == StreamRaise("k_stream")
KbEnd == StreamEnd("k_stream", "k_persist")
KbPersist == StreamPersist("k_persist")

(***************************************************************************)
(* _handle_general_ai_query, lines 257-290                                 *)
(***************************************************************************)
\* line 265
AiStatus ==
    /\ ipc = "g_status"
    /\ Emit(_create_status_response("Thinking..."))
    /\ ipc' = "g_history"
    /\ UNCHANGED <<inv, raised, classifier_vars, agent_vars, breaker_vars, now, monitoring_vars, callers, store_vars>>

\* lines 267-275: get_conversation_history reads the session through
\* get_session; the adapter is called with the text and the history, from
\* which generate_response prepares the request
AiHistory ==
    /\ ipc = "g_history"
    /\ \E env \in Envs :
        LET g == get_session(table, inv.session.session_id, inv.user_id, now, env) IN
        /\ table' = g.table
        /\ inv' = [inv EXCEPT
                     !.conversation_history =
                         IF g.ret = NoItem THEN <<>>
                         ELSE get_recent_messages(g.ret, history_limit),
                     !.messages =
                         _prepare_nova_pro_request(inv.user_message,
                             IF g.ret = NoItem THEN <<>>
                             ELSE get_recent_messages(g.ret, history_limit)),
                     !.adapter = "invoked"]
    /\ ipc' = "g_stream"
    /\ UNCHANGED <<fragments, events, raised, faults, last_op, msg_seq, uuids,
                   classifier_vars, agent_vars, breaker_vars, now, monitoring_vars, callers>>

AiChunk == StreamChunk("g_stream")
AiStops == ConsumerStops("g_stream")
AiRaise == StreamRaise("g_stream")
AiEnd == StreamEnd("g_stream", "g_persist")
AiPersist == StreamPersist("g_persist")

NextHandler ==
    \/ Tick
    \/ CreateSession
    \/ StartHandler
    \/ AwaitHandler
    \/ AgentStatus
    \/ AgentInvoke
    \/ AgentPersist
    \/ AgentEmit
    \/ KbResolve
    \/ KbStatus
    \/ KbClean
    \/ CleanStep
    \/ KbQuery
    \/ KbChunk
    \/ KbStops
    \/ KbRaise
    \/ KbEnd
    \/ KbPersist
    \/ AiStatus
    \/ AiHistory
    \/ AiChunk
    \/ AiStops
    \/ AiRaise
    \/ AiEnd
    \/ AiPersist

(***************************************************************************)
(* Integration orchestrator, idle                                          *)
(***************************************************************************)
CommandIdle ==
    /\ ipc = "off"
    /\ inv = [n |-> 0]
    /\ fragments = <<>>
    /\ events = <<>>
    /\ raised = "none"

BreakerIdle ==
    /\ failure_threshold = 5
    /\ recovery_timeout = 60
    /\ BreakerConstructed

(***************************************************************************)
(* Specifications                                                          *)
(***************************************************************************)
\* the classifier and the query clean-up applied to every bounded text
InitClassify ==
    /\ now = 0
    /\ MonitoringIdle
    /\ CallersIdle
    /\ FormatIdle
    /\ user_message \in Texts
    /\ command_type = "none"
    /\ clean_query = <<>>
    /\ remaining = {}
    /\ cpc = "input"
    /\ BreakerIdle
    /\ StoreEmpty /\ faults = "none" /\ uuids = {"s1"}
    /\ CommandIdle

SpecClassify == InitClassify /\ [][NextClassify]_vars

\* the formatter applied to every successful agent response
InitFormat ==
    /\ now = 0
    /\ MonitoringIdle
    /\ CallersIdle
    /\ \E command \in AgentCommands :
        agent_response \in { r \in invoke_agent(command) : is_successful(r) }
    /\ formatted_response = <<>>
    /\ fpc = "input"
    /\ ClassifierIdle
    /\ BreakerIdle
    /\ StoreEmpty /\ faults = "none" /\ uuids = {"s1"}
    /\ CommandIdle

SpecFormat == InitFormat /\ [][NextFormat]_vars

\* the agent service invoked with every command, any number of times
InitAgent ==
    /\ now = 0
    /\ MonitoringIdle
    /\ CallersIdle
    /\ FormatIdle
    /\ ClassifierIdle
    /\ BreakerIdle
    /\ StoreEmpty /\ faults = "none" /\ uuids = {"s1"}
    /\ CommandIdle

SpecAgent == InitAgent /\ [][NextAgent]_vars

\* one circuit breaker, constructed with any threshold and recovery timeout
InitBreaker ==
    /\ now = 0
    /\ MonitoringIdle
    /\ CallersIdle
    /\ FormatIdle
    /\ ClassifierIdle
    /\ failure_threshold \in 1..MaxThreshold
    /\ recovery_timeout \in 1..MaxRecovery
    /\ BreakerConstructed
    /\ StoreEmpty /\ faults = "none" /\ uuids = {"s1"}
    /\ CommandIdle

SpecBreaker == InitBreaker /\ [][NextBreaker]_vars

\* the command extraction applied to every text, in a process with any of the
\* iteration orders
InitNormalize ==
    /\ now = 0
    /\ MonitoringIdle
    /\ CallersIdle
    /\ FormatIdle
    /\ ClassifierIdle
    /\ BreakerIdle
    /\ StoreEmpty /\ faults = "none" /\ uuids = {"s1"}
    /\ ipc = "off"
    /\ inv \in { [n |-> 0, user_message |-> text, order |-> order,
                  agent_command |-> <<>>] :
                    text \in NormalizeTexts, order \in IterationOrders }
    /\ fragments = <<>>
    /\ events = <<>>
    /\ raised = "none"

SpecNormalize == InitNormalize /\ [][NextNormalize]_vars

\* _prepare_nova_pro_request applied to the current message and every bounded
\* list of prior turns
InitChat ==
    /\ now = 0
    /\ MonitoringIdle
    /\ CallersIdle
    /\ FormatIdle
    /\ ClassifierIdle
    /\ BreakerIdle
    /\ StoreEmpty /\ faults = "none" /\ uuids = {"s1"}
    /\ ipc = "off"
    /\ inv \in { [n |-> 0, user_message |-> ChatText,
                  conversation_history |-> TurnsOf(types), messages |-> <<>>] :
                    types \in PriorTurns }
    /\ fragments = <<>>
    /\ events = <<>>
    /\ raised = "none"

SpecChat == InitChat /\ [][NextChat]_vars

\* one circuit breaker shared by the coroutines of one event loop
SpecShared == InitBreaker /\ [][NextShared]_vars

\* the session store facade over a working table
InitSession ==
    /\ now = 0
    /\ MonitoringIdle
    /\ CallersIdle
    /\ FormatIdle
    /\ ClassifierIdle
    /\ BreakerIdle
    /\ StoreEmpty /\ faults = "none" /\ uuids = {"s1"}
    /\ CommandIdle

SpecSession == InitSession /\ [][NextSession]_vars

\* the session store facade over a table whose reads and writes may fail, or
\* with no table at all (_init_dynamodb_client failed)
InitSessionFaulty ==
    /\ now = 0
    /\ MonitoringIdle
    /\ CallersIdle
    /\ FormatIdle
    /\ ClassifierIdle
    /\ BreakerIdle
    /\ StoreEmpty /\ faults \in {"transient", "no_table"} /\ uuids = {"s1"}
    /\ CommandIdle

SpecSessionFaulty == InitSessionFaulty /\ [][NextSession]_vars

\* every operation of the facade over a table whose reads and writes may fail;
\* all messages but one have been constructed before
InitFacade ==
    /\ now = 0
    /\ MonitoringIdle
    /\ CallersIdle
    /\ FormatIdle
    /\ ClassifierIdle
    /\ BreakerIdle
    /\ table = [sid \in AllIds |-> NoItem]
    /\ last_op = NoOp
    /\ msg_seq = MaxMsgs - 1
    /\ faults = "transient" /\ uuids = {"s1"}
    /\ CommandIdle

SpecFacade == InitFacade /\ [][NextFacade]_vars

\* two concurrent callers of add_message_to_session over a working table
InitAppend ==
    /\ now = 0
    /\ MonitoringIdle
    /\ CallersIdle
    /\ FormatIdle
    /\ ClassifierIdle
    /\ BreakerIdle
    /\ StoreEmpty /\ faults = "none" /\ uuids = {"s1"}
    /\ CommandIdle

SpecAppend == InitAppend /\ [][NextAppend]_vars


\* process_user_command invoked by a consumer, over a working table on which
\* sessions may have been created before
InitCommand ==
    /\ now = 0
    /\ MonitoringIdle
    /\ CallersIdle
    /\ FormatIdle
    /\ ClassifierIdle
    /\ BreakerIdle
    /\ StoreEmpty /\ faults = "none" /\ uuids = {"s1", "s2"}
    /\ CommandIdle

SpecCommand == InitCommand /\ [][NextCommand]_vars

\* general-AI commands over up to two sessions
SpecIsolation == InitCommand /\ [][NextIsolation]_vars

\* process_user_command invoked while the breakers are open: an earlier use of
\* CircuitBreaker.call has counted failure_threshold failures, the last one at
\* time 0
BreakerOpened ==
    /\ failure_threshold = MaxThreshold
    /\ recovery_timeout = MaxRecovery
    /\ failure_count = failure_threshold
    /\ last_failure_time = 0
    /\ state = "OPEN"
    /\ func_calls = failure_threshold
    /\ attempts = failure_threshold
    /\ call_result = "error"
    /\ bpc = "idle"
    /\ streak = failure_threshold
    /\ trial_failed_at = NoTime
    /\ prev = BreakerFields

InitCommandOpen ==
    /\ now = 0
    /\ MonitoringIdle
    /\ CallersIdle
    /\ FormatIdle
    /\ ClassifierIdle
    /\ BreakerOpened
    /\ StoreEmpty /\ faults = "none" /\ uuids = {"s1", "s2"}
    /\ CommandIdle

SpecCommandOpen == InitCommandOpen /\ [][NextCommand]_vars

\* a handler awaited and iterated by its caller, over a working table on which
\* sessions have been created
InitHandler ==
    /\ now = 0
    /\ MonitoringIdle
    /\ CallersIdle
    /\ FormatIdle
    /\ ClassifierIdle
    /\ failure_threshold = MaxThreshold
    /\ recovery_timeout \in 1..MaxRecovery
    /\ BreakerConstructed
    /\ StoreEmpty /\ faults = "none" /\ uuids = {"s1"}
    /\ CommandIdle

SpecHandler == InitHandler /\ [][NextHandler]_vars

(***************************************************************************)
(* Properties of the classifier and the query clean-up (SpecClassify)      *)
(***************************************************************************)
\* term (lower case) occurs in s when case is ignored
ContainsIgnoringCase(s, term) ==
    \E i \in 1..(Len(s) - Len(term) + 1) :
        \A j \in 1..Len(term) : lower_char(s[i + j - 1]) = term[j]

HasAgentTerm(s) == \E cmd \in agent_commands : ContainsIgnoringCase(s, cmd)
HasIndicator(s) == \E ind \in knowledge_base_indicators : ContainsIgnoringCase(s, ind)

\* C1: every text that contains an agent-vocabulary term, case ignored, is
\* classified agent, also when it contains a knowledge-base indicator.
C1_AgentTermWins ==
    (cpc \in {"clean", "done"} /\ HasAgentTerm(user_message)) => command_type = "agent"

C1_Witness ==
    /\ cpc = "done"
    /\ HasAgentTerm(user_message)
    /\ HasIndicator(user_message)
    /\ command_type = "agent"

\* C2: classification is total; a text without agent term is knowledge_base
\* exactly when it contains an indicator, case ignored, and general_ai otherwise.
C2_KbOrGeneral ==
    cpc \in {"clean", "done"} =>
        /\ command_type \in {"agent", "knowledge_base", "general_ai"}
        /\ ~HasAgentTerm(user_message) =>
            /\ (command_type = "knowledge_base") <=> HasIndicator(user_message)
            /\ ~HasIndicator(user_message) => command_type = "general_ai"

C2_Witness ==
    /\ cpc = "done"
    /\ ~HasAgentTerm(user_message)
    /\ HasIndicator(user_message)
    /\ ~(\E ind \in knowledge_base_indicators : contains(user_message, ind))
    /\ command_type = "knowledge_base"

\* C3: for a message classified knowledge_base the query handed to the
\* knowledge-base adapter holds no indicator any more, whatever the case the
\* indicator was written in.
C3_IndicatorStripped ==
    (cpc = "done" /\ command_type = "knowledge_base") => ~HasIndicator(clean_query)

(***************************************************************************)
(* Properties of the circuit breaker (SpecBreaker)                         *)
(***************************************************************************)
\* C4: between calls, the breaker is open once failure_threshold calls in a row
\* have failed, and closed while fewer have failed since the last success.
C4_OpensAtThreshold ==
    /\ (bpc = "idle" /\ streak >= failure_threshold) => state = "OPEN"
    /\ streak < failure_threshold => state = "CLOSED"

C4_Witness ==
    /\ bpc = "idle"
    /\ failure_threshold >= 2
    /\ streak = failure_threshold
    /\ state = "OPEN"

\* C5: a call entered while the breaker is open and no more than
\* recovery_timeout has passed since the last failure is rejected with the
\* circuit-open error, does not invoke the wrapped function, and leaves state,
\* failure_count and last_failure_time as they were.
C5_OpenRejects ==
    [][ (/\ attempts' = attempts + 1
         /\ state = "OPEN"
         /\ last_failure_time # NoTime
         /\ now - last_failure_time <= recovery_timeout)
        => (/\ call_result' = "circuit_open"
            /\ bpc' = "idle"
            /\ func_calls' = func_calls
            /\ state' = state
            /\ failure_count' = failure_count
            /\ last_failure_time' = last_failure_time) ]_vars

C5_Witness ==
    /\ call_result = "circuit_open"
    /\ state = "OPEN"
    /\ func_calls = prev.func_calls
    /\ now - last_failure_time = recovery_timeout

\* C6: a call entered while the breaker is open and more than recovery_timeout
\* has passed since the last failure moves it to half_open and invokes the
\* wrapped function; when that call succeeds the breaker is closed with
\* failure_count = 0.
C6_TrialAfterTimeout ==
    [][ /\ (/\ attempts' = attempts + 1
            /\ state = "OPEN"
            /\ last_failure_time # NoTime
            /\ now - last_failure_time > recovery_timeout)
           => (/\ state' = "HALF_OPEN"
               /\ bpc' = "in_func"
               /\ func_calls' = func_calls + 1)
        /\ (bpc = "in_func" /\ state = "HALF_OPEN" /\ call_result' = "ok")
           => (state' = "CLOSED" /\ failure_count' = 0) ]_vars

C6_Witness ==
    /\ call_result = "ok"
    /\ prev.state = "OPEN"
    /\ prev.failure_count > 0
    /\ func_calls = prev.func_calls + 1
    /\ state = "CLOSED"
    /\ failure_count = 0

\* C7: when the trial call made in half_open fails, the breaker is open again,
\* failure_count is one higher and last_failure_time is the time of that
\* failure; every call entered no more than recovery_timeout after the failed
\* trial is rejected without invoking the wrapped function.
C7_FailedTrialReopens ==
    [][ /\ (bpc = "in_func" /\ state = "HALF_OPEN" /\ call_result' = "error")
           => (/\ state' = "OPEN"
               /\ failure_count' = failure_count + 1
               /\ last_failure_time' = now)
        /\ (/\ attempts' = attempts + 1
            /\ trial_failed_at # NoTime
            /\ now - trial_failed_at <= recovery_timeout)
           => (call_result' = "circuit_open" /\ func_calls' = func_calls) ]_vars

C7_Witness ==
    /\ call_result = "circuit_open"
    /\ trial_failed_at # NoTime
    /\ prev.last_failure_time = trial_failed_at
    /\ now > trial_failed_at
    /\ state = "OPEN"


(***************************************************************************)
(* Properties of the session store facade                                  *)
(***************************************************************************)
\* the ids of the messages in the stored history of a session
StoredIds(sid) ==
    IF table[sid] = NoItem THEN {}
    ELSE { table[sid].conversation_history[i].message_id :
             i \in DOMAIN table[sid].conversation_history }

FacadeStep(op) == last_op'.seq # last_op.seq /\ last_op'.op = op

\* C8 (SpecSession): get(session_id, owner) on a stored session whose inactivity
\* exceeds the timeout returns none and leaves the stored status expired; on a
\* stored session whose inactivity does not exceed the timeout it returns the
\* session and leaves the stored status as it was.
C8_LazyExpiry ==
    [][ (/\ FacadeStep("get")
         /\ table[last_op'.sid] # NoItem
         /\ table[last_op'.sid].user_id = last_op'.uid)
        => LET stored == table[last_op'.sid] IN
           IF now - stored.last_activity > session_timeout_hours
           THEN /\ last_op'.ret = NoItem
                /\ table'[last_op'.sid].status = "expired"
           ELSE /\ last_op'.ret = stored
                /\ table'[last_op'.sid].status = stored.status ]_vars

C8_Witness ==
    /\ last_op.op = "get"
    /\ last_op.ret = NoItem
    /\ table[last_op.sid] # NoItem
    /\ table[last_op.sid].user_id = last_op.uid
    /\ table[last_op.sid].status = "expired"
    /\ now - table[last_op.sid].last_activity = session_timeout_hours + 1

\* C9 (SpecSessionFaulty): after an append_message that returned true the stored
\* history is no longer than the cap and ends with the new message; if the
\* history held exactly cap messages before, it holds exactly cap messages
\* after: the old ones without the oldest, in their order, then the new one.
C9_TrimmedToCap ==
    [][ (FacadeStep("add") /\ last_op'.ret = TRUE)
        => /\ table[last_op'.sid] # NoItem
           /\ LET before == table[last_op'.sid].conversation_history
                  after == table'[last_op'.sid].conversation_history IN
              /\ Len(after) >= 1
              /\ Len(after) <= max_conversation_history
              /\ after[Len(after)].message_id = last_op'.message_id
              /\ Len(before) = max_conversation_history
                 => /\ Len(after) = max_conversation_history
                    /\ after = Tail(before) \o <<after[Len(after)]>> ]_vars

C9_Witness ==
    /\ last_op.op = "add"
    /\ last_op.ret = TRUE
    /\ last_op.len_before = max_conversation_history
    /\ Len(table[last_op.sid].conversation_history) = max_conversation_history
    /\ table[last_op.sid].conversation_history[1].message_id = 2


\* C23 (SpecFacade): an operation of a user who does not own a stored session
\* leaves that session's record as it is; get on it returns None, update,
\* add_message_to_session and delete on it return False, and list does not
\* return it.
C23_OwnerOnly ==
    [][ last_op'.seq # last_op.seq =>
        \A sid \in AllIds :
            (table[sid] # NoItem /\ table[sid].user_id # last_op'.uid) =>
                /\ table'[sid] = table[sid]
                /\ (last_op'.op = "get" /\ last_op'.sid = sid) => last_op'.ret = NoItem
                /\ (last_op'.op \in {"update", "add", "delete"} /\ last_op'.sid = sid)
                        => last_op'.ret = FALSE
                /\ last_op'.op = "list" =>
                        \A i \in DOMAIN last_op'.ret : last_op'.ret[i].session_id # sid
      ]_vars

\* an append by another user on a live session, refused with no storage error
C23_Witness ==
    /\ last_op.op = "add"
    /\ last_op.ret = FALSE
    /\ ~last_op.failed
    /\ table[last_op.sid] # NoItem
    /\ table[last_op.sid].user_id # last_op.uid
    /\ table[last_op.sid].status = "active"
    /\ ~is_expired(table[last_op.sid], now, session_timeout_hours)

\* C24 as stated (SpecFacade): no facade operation raises.
C24_NoErrorEscapes == last_op.op # "none" => last_op.raised = "none"

\* C24 (SpecFacade): get, update, add_message_to_session, list and delete never
\* raise, and return None, False or the empty list when a call of the table
\* raised inside them; create_session raises exactly when its write failed, the
\* exception is HTTPException and nothing has been stored under the new id.
C24_OnlyCreateRaises ==
    last_op.op # "none" =>
        /\ last_op.raised # "none" <=> (last_op.op = "create" /\ last_op.failed)
        /\ last_op.raised \in {"none", "HTTPException"}
        /\ (last_op.op = "create" /\ last_op.failed) => table[last_op.sid] = NoItem
        /\ (last_op.op = "get" /\ last_op.failed) => last_op.ret = NoItem
        /\ (last_op.op \in {"update", "add", "delete"} /\ last_op.failed)
                => last_op.ret = FALSE
        /\ (last_op.op = "list" /\ last_op.failed) => last_op.ret = <<>>

C24_Witness ==
    /\ last_op.op = "create"
    /\ last_op.failed
    /\ last_op.raised = "HTTPException"
    /\ table[last_op.sid] = NoItem


(***************************************************************************)
(* Properties of concurrent appends (SpecAppend)                           *)
(***************************************************************************)
\* both callers have returned true from an append to the same session
BothAppended(c, d) ==
    /\ c # d
    /\ callers[c].pc = "returned" /\ callers[c].ret
    /\ callers[d].pc = "returned" /\ callers[d].ret
    /\ callers[c].session_id = callers[d].session_id

\* C25: when two appends to one session do not interleave (the second call
\* reads the record after the first has returned) and both return true, the
\* stored history ends with the two messages in call order.  That interleaved
\* calls can both return true and leave one message only is C25_LostUpdate.
C25_SequentialAppends ==
    \A c, d \in Callers :
        (BothAppended(c, d) /\ c \in callers[d].finished) =>
            LET history == table[callers[c].session_id].conversation_history IN
            /\ Len(history) >= 2
            /\ SubSeq(history, Len(history) - 1, Len(history))
                    = <<callers[c].session.conversation_history[
                            Len(callers[c].session.conversation_history)],
                        callers[d].session.conversation_history[
                            Len(callers[d].session.conversation_history)]>>

\* the calls interleaved, both returned true, and the stored history holds the
\* message of the last writer only
C25_LostUpdate ==
    \E c, d \in Callers :
        /\ BothAppended(c, d)
        /\ c \notin callers[d].finished /\ d \notin callers[c].finished
        /\ LET stored == StoredIds(callers[c].session_id) IN
            /\ callers[d].message.message_id \in stored
            /\ callers[c].message.message_id \notin stored

(***************************************************************************)
(* Properties of process_user_command (SpecCommand)                        *)
(***************************************************************************)
AgentMessages(sid) ==
    SelectSeq(table[sid].conversation_history, LAMBDA m : m.message_type = "agent")

\* C10: when an invocation whose text is classified agent and whose tool agent
\* would answer successfully has ended, the consumer has received status
\* fragments followed by exactly one agent_response fragment as the last one,
\* and the session holds an agent message with that fragment's content.
C10_AgentPathSuccess ==
    (ipc = "done" /\ _classify_command(inv.user_message) = "agent")
    => /\ raised = "none"
       /\ Len(fragments) >= 2
       /\ \A i \in 1..(Len(fragments) - 1) : fragments[i].type = "status"
       /\ fragments[Len(fragments)].type = "agent_response"
       /\ Len(AgentMessages(inv.session.session_id)) >= 1
       /\ AgentMessages(inv.session.session_id)[
              Len(AgentMessages(inv.session.session_id))].content
          = fragments[Len(fragments)].content

(***************************************************************************)
(* Properties of the agent response formatter (SpecFormat)                 *)
(***************************************************************************)
\* the typed template of each of the four successful response types
TypedTemplate(r) ==
    LET d == r.data IN
    IF r.response_type = "time"
    THEN <<"Current time in ", r.location, ": ", d.time, " (", d.timezone, ")">>
    ELSE IF r.response_type = "date"
    THEN <<"Current date in ", r.location, ": ", d.date, " (", d.day_of_week, ")">>
    ELSE IF r.response_type = "weather"
    THEN <<"Weather in ", r.location, ": ", d.condition, ", ", d.temperature>>
         \o (IF get_text(d, "humidity") THEN <<", Humidity: ", d.humidity>> ELSE <<>>)
    ELSE IF r.response_type = "combined"
    THEN LET time_part == IF get_part(d, "time")
                          THEN << <<"Time: ", d.time.time, " (", d.time.timezone, ")">> >>
                          ELSE <<>>
             date_part == IF get_part(d, "date")
                          THEN << <<"Date: ", d.date.date, " (", d.date.day_of_week, ")">> >>
                          ELSE <<>>
             weather_part ==
                 IF get_part(d, "weather")
                 THEN << <<"Weather: ", d.weather.condition, ", ", d.weather.temperature>>
                         \o (IF get_text(d.weather, "humidity")
                             THEN <<", Humidity: ", d.weather.humidity>> ELSE <<>>) >>
                 ELSE <<>>
         IN <<"Birmingham, Alabama Information:", "\n">>
            \o join_lines(time_part \o date_part \o weather_part)
    ELSE <<>>

\* C11: the display text of a successful agent response of type time, date,
\* weather or combined is the typed template of that type, never the raw dump
\* of the data mapping.
C11_TypedTemplate ==
    (fpc = "done"
     /\ agent_response.response_type \in {"time", "date", "weather", "combined"})
        => /\ formatted_response = TypedTemplate(agent_response)
           /\ formatted_response # str_data(agent_response)

(***************************************************************************)
(* Properties of process_user_command (SpecCommand, SpecCommandOpen)       *)
(***************************************************************************)
\* the types of the fragments the consumer received, in order
FragmentTypes == [i \in DOMAIN fragments |-> fragments[i].type]

\* the appends of the invocation for messages of the given types
Persists(types) ==
    { i \in DOMAIN events : events[i].kind = "persist" /\ events[i].type \in types }

\* the emissions of the invocation of fragments of the given types
Emits(types) ==
    { i \in DOMAIN events : events[i].kind = "emit" /\ events[i].type \in types }

\* C12: a command classified knowledge_base, with no knowledge_base_id on the
\* session and no knowledge bases available, yields a status fragment and then
\* a terminal error fragment tagged no_knowledge_bases; the adapter is not
\* invoked and nothing but the inbound user message is persisted.
C12_NoKnowledgeBases ==
    (/\ ipc = "done"
     /\ _classify_command(inv.user_message) = "knowledge_base"
     /\ inv.knowledge_base_id = NoKb
     /\ \A sid \in AllIds : table[sid] # NoItem => table[sid].knowledge_base_id = NoKb
     /\ ~inv.kb_list.raises
     /\ inv.kb_list.list = <<>>)
        => /\ raised = "none"
           /\ FragmentTypes = <<"status", "error">>
           /\ fragments[2].error_type = "no_knowledge_bases"
           /\ Persists({"assistant", "agent"}) = {}

\* C13: no exception leaves process_user_command: an invocation that has ended
\* has raised nothing to its consumer.
C13_NothingPropagates ==
    ipc = "done" => raised = "none"

\* C14: when the append of the inbound user message returns false, the
\* invocation emits a terminal error fragment and stops: no status fragment
\* follows the failed append and the text is not dispatched.
C14_FailedAppendStops ==
    \A i \in Persists({"user"}) :
        ~events[i].ret
            => /\ \A j \in Emits({"status"}) : j < i
               /\ inv.command_type = "none"
               /\ (ipc = "done" =>
                       /\ fragments # <<>>
                       /\ fragments[Len(fragments)].type = "error")

HandlerDone(handlers) == ipc = "done" /\ inv.handler \in handlers

Streaming == {"knowledge_base", "general_ai"}

\* the contents of the response fragments received so far, concatenated
RECURSIVE ResponseText(_)
ResponseText(fs) ==
    IF fs = <<>> THEN <<>>
    ELSE (IF Head(fs).type = "response" THEN Head(fs).content ELSE <<>>)
         \o ResponseText(Tail(fs))

ResponseCount == Cardinality({ i \in DOMAIN fragments : fragments[i].type = "response" })

\* C15: a command whose adapter fails increments the failure_count of that
\* adapter's breaker.
C15_FailureCounted ==
    (HandlerDone(Handlers) /\ inv.adapter = "failed")
        => failure_count = prev.failure_count + 1

C18_StreamForwardedAndPersisted ==
    (ipc \in {"k_stream", "k_persist", "g_stream", "g_persist"} \/ HandlerDone(Streaming))
        => /\ ResponseCount = inv.chunks
           /\ ResponseText(fragments) = inv.response_content
           /\ \A i \in DOMAIN fragments :
                fragments[i].type = "response" => fragments[i].streaming
           /\ (HandlerDone(Streaming) /\ inv.adapter = "completed") =>
                IF inv.response_content # <<>>
                THEN /\ raised = "none"
                     /\ Cardinality(Persists({"assistant"})) = 1
                     /\ \A i \in Persists({"assistant"}) : events[i].ret
                ELSE Persists({"assistant"}) = {}

\* C19: the response message of a turn is written only after every fragment
\* carrying response content has been emitted: no such fragment is emitted
\* after the append.
C19_PersistAfterEmission ==
    \A i \in Persists({"assistant", "agent"}) :
        \A j \in Emits({"response", "agent_response"}) : j < i

\* C20: when a streaming adapter raises after k >= 1 chunks, the k response
\* fragments stay delivered, a terminal error fragment follows them, and the
\* partial buffer is not persisted.
C20_MidStreamFailure ==
    (HandlerDone(Streaming) /\ inv.adapter = "failed" /\ inv.chunks >= 1)
        => /\ ResponseCount = inv.chunks
           /\ fragments[Len(fragments)].type = "error"
           /\ Persists({"assistant"}) = {}

(***************************************************************************)
(* Properties of a turn as a whole (SpecHandler)                           *)
(***************************************************************************)
\* the messages of the stored history of a session
StoredMessages(sid) ==
    IF table[sid] = NoItem THEN {}
    ELSE { table[sid].conversation_history[i] :
             i \in DOMAIN table[sid].conversation_history }

\* the inbound user message of the turn was appended, the facade returning true
InboundStored == events # <<>> /\ events[1].type = "user" /\ events[1].ret

\* C21: when the consumer stops consuming while an adapter stream is in
\* progress, no assistant message is persisted for the turn, and the inbound
\* user message appended earlier is still in the stored history.
C21_CancelDiscardsBuffer ==
    (HandlerDone(Streaming) /\ inv.adapter = "cancelled" /\ InboundStored)
        => /\ Persists({"assistant"}) = {}
           /\ \A m \in StoredMessages(inv.session.session_id) :
                m.message_type # "assistant"
           /\ inv.user_msg \in StoredMessages(inv.session.session_id)

\* C22: once the inbound user message of a turn has been appended, no later
\* step of the turn takes a message out of the stored history, the trimming
\* of the oldest messages at the cap apart.
C22_NoRollback ==
    [][\A sid \in SessionIds :
        (ipc # "off" /\ table[sid] # NoItem) =>
            \A m \in StoredMessages(sid) :
                \/ m \in StoredMessages(sid)'
                \/ /\ Len(table'[sid].conversation_history) = max_conversation_history
                   /\ \A k \in StoredMessages(sid)' : k.message_id > m.message_id]_vars

(***************************************************************************)
(* Properties of the dispatch (SpecCommand)                                *)
(***************************************************************************)
\* C29: a step of an invocation of process_user_command with session id A, and a
\* facade operation on session A, leave the stored record of every other
\* session as it is.
C29_OtherSessionsUntouched ==
    [][ \A B \in AllIds :
          LET A == IF last_op'.seq # last_op.seq THEN last_op'.sid
                   ELSE IF inv'.n > 0 THEN inv'.session_id ELSE B IN
          (B # A /\ table[B] # NoItem) => table'[B] = table[B] ]_vars

\* an invocation on one session has appended its user message while another
\* session is stored
C29_Witness ==
    /\ ipc = "done"
    /\ \E i \in DOMAIN events :
          events[i].kind = "persist" /\ events[i].sid = inv.session_id /\ events[i].ret
    /\ \E B \in SessionIds \ {inv.session_id} :
          /\ table[B] # NoItem
          /\ table[B].user_id = inv.user_id

\* C26: an invocation of process_user_command that has reached the dispatch
\* has invoked the backend its classification selects (and, the handlers
\* being alternatives of one if/elif, no other one).
C26_OneBackendInvoked ==
    (ipc = "done" /\ inv.command_type # "none")
        => /\ inv.adapter # "idle"
           /\ attempts = 1

\* C27: a knowledge-base command on a session without a knowledge_base_id, for
\* a user who has knowledge bases, leaves the first listed id stored as the
\* session's knowledge_base_id.
C27_FirstKnowledgeBasePersisted ==
    (/\ ipc = "done"
     /\ inv.command_type = "knowledge_base"
     /\ inv.session.knowledge_base_id = NoKb
     /\ ~inv.kb_list.raises
     /\ inv.kb_list.list # <<>>)
        => table[inv.session.session_id].knowledge_base_id = inv.kb_list.list[1]

(***************************************************************************)
(* Properties of the agent monitoring (SpecAgent)                          *)
(***************************************************************************)
\* C28: every call of the agent adapter records exactly one outcome in the
\* metrics registry: after n calls total_requests is n, and the successes and
\* failures recorded add up to n.
C28_EveryCallRecorded ==
    /\ total_requests = adapter_calls
    /\ metrics # NoItem =>
            metrics.successful_requests + metrics.failed_requests = adapter_calls

(***************************************************************************)
(* Properties of invalid input (SpecCommand)                               *)
(***************************************************************************)
\* the user text of the invocation is blank after trimming, or longer than
\* the limit
InvalidText == inv.n > 0 /\ post_init(inv.user_message) # "none"

\* C30: an invocation whose body has run with an invalid user text ends with
\* an error fragment, with no adapter invoked, no message persisted and no
\* exception reaching the caller.
C30_InvalidInputRejected ==
    (ipc = "done" /\ InvalidText /\ inv.session # NoItem)
        => /\ raised = "none"
           /\ fragments # <<>>
           /\ fragments[Len(fragments)].type = "error"
           /\ inv.adapter = "idle"
           /\ \A i \in DOMAIN events : events[i].kind # "persist"

\* C30, the stored half: every user message stored in a session has content
\* that is not blank and not longer than the limit.
C30_StoredContentValid ==
    \A sid \in SessionIds : \A m \in StoredMessages(sid) :
        m.message_type = "user" => post_init(m.content) = "none"

Contents(seq) == [i \in DOMAIN seq |-> seq[i].content]

\* the entries of the prepared request before its last one
Context == SubSeq(inv.messages, 1, Len(inv.messages) - 1)

\* C32: the request prepared from a list of prior turns is the current message
\* preceded by the last history_limit of those turns (all of them when there
\* are fewer), in their order: no turn of that window is left out.
C32_TrailingWindow ==
    ipc = "done"
        => /\ inv.messages[Len(inv.messages)] = RequestEntry("user", inv.user_message)
           /\ Contents(Context) = Contents(last_n(inv.conversation_history, history_limit))

\* C32, the part that holds: the current message is last, at most
\* history_limit entries precede it, and they are turns of the trailing
\* window in their order.
C32_OrderedWithinWindow ==
    ipc = "done"
        => /\ inv.messages[Len(inv.messages)] = RequestEntry("user", inv.user_message)
           /\ Len(Context) <= history_limit
           /\ \A i \in DOMAIN Context :
                \E j \in DOMAIN inv.conversation_history :
                    /\ j > Len(inv.conversation_history) - history_limit
                    /\ inv.conversation_history[j].content = Context[i].content
                    /\ inv.conversation_history[j].message_type = Context[i].role
           /\ \A i, k \in DOMAIN Context :
                i < k => Len(Context[i].content) < Len(Context[k].content)

\* C38: the request the general-AI handler sends to the chat model contains
\* the current user message exactly once.
C38_CurrentMessageOnce ==
    (inv.n > 0 /\ inv.handler = "general_ai" /\ inv.adapter # "idle")
        => Cardinality({ i \in DOMAIN inv.messages :
                            inv.messages[i] = RequestEntry("user", inv.user_message) }) = 1

(***************************************************************************)
(* Invariants of the stored sessions (SpecFacade)                          *)
(***************************************************************************)
\* C33: every stored session is stored under its own id, has last_activity >=
\* created_at and a created_at that is not in the future, and every message of
\* its history carries the session's id.
C33_SessionInvariants ==
    \A sid \in AllIds :
        table[sid] # NoItem
            => /\ table[sid].session_id = sid
               /\ table[sid].last_activity >= table[sid].created_at
               /\ table[sid].created_at <= now
               /\ \A m \in StoredMessages(sid) : m.session_id = sid

\* a session that was appended to after its creation has expired and the
\* expiry was written back
C33_Witness ==
    \E sid \in AllIds :
        /\ table[sid] # NoItem
        /\ table[sid].status = "expired"
        /\ table[sid].conversation_history # <<>>
        /\ table[sid].last_activity > table[sid].created_at

(***************************************************************************)
(* Properties of the command normalization (SpecNormalize)                 *)
(***************************************************************************)
\* the kind of a term: the first term of its group (time, date, weather, all)
Kind(cmd) ==
    LET g == CHOOSE k \in 1..4 : \E i \in 1..3 : CommandGroups[k][i] = cmd
    IN CommandGroups[g][1]

\* where a term occurs first in a text (0: nowhere)
index_of(s, sub) ==
    IF contains(s, sub)
    THEN CHOOSE i \in 1..(Len(s) - Len(sub) + 1) :
            /\ SubSeq(s, i, i + Len(sub) - 1) = sub
            /\ \A j \in 1..(i - 1) : SubSeq(s, j, j + Len(sub) - 1) # sub
    ELSE 0

\* the terms that occur in the text at the leftmost position any term occurs
LeftmostTerms(text) ==
    LET s == strip(lower(text))
        found == { cmd \in agent_commands : contains(s, cmd) } IN
    { cmd \in found : \A other \in found : index_of(s, cmd) <= index_of(s, other) }

\* C34: the command passed to the tool agent is of the kind whose term occurs
\* first in the message, and `all` when no term occurs; it depends on the
\* message only.
C34_FirstMatchWins ==
    ipc = "done"
        => IF LeftmostTerms(inv.user_message) = {}
           THEN inv.agent_command = <<"a","l","l">>
           ELSE \E cmd \in LeftmostTerms(inv.user_message) :
                    Kind(inv.agent_command) = Kind(cmd)

\* C34, the part that holds: the command is a term that occurs in the
\* message, or `all` when none occurs.
C34_SomeMatch ==
    ipc = "done"
        => LET s == strip(lower(inv.user_message))
               found == { cmd \in agent_commands : contains(s, cmd) } IN
           IF found = {} THEN inv.agent_command = <<"a","l","l">>
           ELSE inv.agent_command \in found

(***************************************************************************)
(* Invariant of the breaker fields (SpecBreaker)                           *)
(***************************************************************************)
\* C35: a closed breaker has counted fewer failures than its threshold; an
\* open or half-open one has counted at least the threshold and has a
\* last_failure_time; failure_count is never negative.
C35_BreakerInvariant ==
    /\ failure_count >= 0
    /\ state = "CLOSED" => failure_count < failure_threshold
    /\ state \in {"OPEN", "HALF_OPEN"}
          => failure_count >= failure_threshold /\ last_failure_time # NoTime

\* a trial call is in progress on a breaker that was opened, tried and
\* reopened before: its count is above the threshold
C35_Witness ==
    /\ state = "HALF_OPEN"
    /\ bpc = "in_func"
    /\ failure_count > failure_threshold
    /\ last_failure_time # NoTime

(***************************************************************************)
(* Properties of the session a command is recorded in (SpecCommand)        *)
(***************************************************************************)
\* the invocation found no session under the caller's session_id and created
\* one, which has an id of its own
SessionCreated ==
    /\ inv.n > 0
    /\ inv.session # NoItem
    /\ inv.session.session_id # inv.session_id

\* C36: once an invocation that created a session has appended its inbound
\* user message, the message is in the stored history of the created session.
C36_InboundInCreatedSession ==
    (SessionCreated /\ ipc \in {"ack", "dispatch", "done"}
        /\ post_init(inv.user_message) = "none")
        => \E m \in StoredMessages(inv.session.session_id) :
                m.message_type = "user" /\ m.content = inv.user_message

(***************************************************************************)
(* Properties of archived sessions (SpecFacade)                            *)
(***************************************************************************)
\* the stored status of the session is archived
Archived(sid) == table[sid] # NoItem /\ table[sid].status = "archived"

\* C37: a session stored as archived stays archived, and its history is not
\* extended, whatever operation comes next.
C37_ArchivedIsTerminal ==
    [][ \A sid \in AllIds :
            Archived(sid)
                => /\ Archived(sid)'
                   /\ table'[sid].conversation_history = table[sid].conversation_history
      ]_vars

\* C37, the status alone: a session stored as archived stays archived.
C37_StatusStaysArchived ==
    [][ \A sid \in AllIds : Archived(sid) => Archived(sid)' ]_vars

(***************************************************************************)
(* Properties of the error fragments (SpecHandler)                         *)
(***************************************************************************)
\* the fragment types of the protocol
ProtocolTypes == {"status", "response", "agent_response", "error"}

\* C39: every emitted fragment has a type of the protocol; a fragment of type
\* error is the last fragment of the stream (so there is at most one), the
\* invocation has ended with it, and no message is persisted after it.
C39_ErrorIsTerminal ==
    /\ \A i \in DOMAIN fragments : fragments[i].type \in ProtocolTypes
    /\ \A i \in DOMAIN fragments :
          fragments[i].type = "error" => i = Len(fragments) /\ ipc = "done"
    /\ \A i, j \in DOMAIN events :
          (i < j /\ events[i].kind = "emit" /\ events[i].type = "error")
              => events[j].kind # "persist"

\* a handler has ended with an error fragment, after a status fragment and
\* after the inbound message was persisted
C39_Witness ==
    /\ ipc = "done"
    /\ Len(fragments) >= 2
    /\ fragments[Len(fragments)].type = "error"
    /\ fragments[1].type = "status"
    /\ InboundStored

(***************************************************************************)
(* Frame of the operations of a requester who is not the owner             *)
(* (SpecSession)                                                           *)
(***************************************************************************)
\* C40: a get, an append or an archive on a stored session by a user who is
\* not its owner leaves the whole table as it was: no expiry is written back
\* and no field of the record changes, whether or not the session is past its
\* timeout.
C40_NonOwnerChangesNothing ==
    [][ (/\ last_op'.seq # last_op.seq
         /\ last_op'.op \in {"get", "add", "delete"}
         /\ table[last_op'.sid] # NoItem
         /\ table[last_op'.sid].user_id # last_op'.uid)
        => table' = table ]_vars

\* a get by another user on a session that is past its timeout: the record is
\* still stored as active
C40_Witness ==
    /\ last_op.op = "get"
    /\ table[last_op.sid] # NoItem
    /\ table[last_op.sid].user_id # last_op.uid
    /\ is_expired(table[last_op.sid], now, session_timeout_hours)
    /\ table[last_op.sid].status = "active"

====
